---- MODULE Spec2Model ----
(***************************************************************************)
(* Model of the product data-access and search subsystem of the Fi-Lis NPD *)
(* platform: the query builder and generic repository (BaseRepository.ts), *)
(* the transaction wrapper (connection.ts), the product search             *)
(* (ProductRepository.ts), the submission route, and the tier and reward   *)
(* computations (UserRepository.ts, database_infrastructure.sql, the       *)
(* development plan's calculateReward), the connection pool under          *)
(* concurrent callers, and the UserRepository calls.                       *)
(*                                                                         *)
(* Decimal columns are held as scaled integers: scores and rates in        *)
(* hundredths (8.0 is 800), multipliers in hundredths (1.2 is 120).           *)
(***************************************************************************)
EXTENDS Integers, Sequences, FiniteSets, TLC

VARIABLES
    \* -- query-builder pair run (two inputs of one shape, side by side)
    builder, wherePc, inA, inB, outA, outB,
    \* -- repository find() against a table with a concurrent writer
    table, findPc, findArgs, findQuery, findData, findTotal, findSnap, writes,
    \* -- bulkInsert inside DatabaseConnection.transaction
    bulkPc, bulkItems, bulkIdx, bulkTable, bulkBefore, bulkTx, bulkResult,
    \* -- submission-creation requests
    submissions, now, reqs, totalSubs,
    \* -- tier recomputation
    users, tierConfigs, lastTier,
    \* -- reward computation
    rewardIn, rewardOut,
    \* -- findSimilarProducts against a catalog
    simCatalog, simArgs, simPc, simOut,
    \* -- repository create / update / delete calls and their outcome
    crudTable, crudCall,
    \* -- ProductRepository.search
    products, searchArgs, searchPc, searchOut,
    \* -- autocomplete
    autoIn, autoOut,
    \* -- the connection pool and the queries of concurrent callers
    poolFree, tasks,
    \* -- UserRepository calls against the users table
    acctUsers, acctCalls

whereVars  == <<builder, wherePc, inA, inB, outA, outB>>
findVars   == <<table, findPc, findArgs, findQuery, findData, findTotal, findSnap, writes>>
bulkVars   == <<bulkPc, bulkItems, bulkIdx, bulkTable, bulkBefore, bulkTx, bulkResult>>
submitVars == <<submissions, now, reqs, totalSubs>>
tierVars   == <<users, tierConfigs, lastTier>>
rewardVars == <<rewardIn, rewardOut>>
simVars    == <<simCatalog, simArgs, simPc, simOut>>
crudVars   == <<crudTable, crudCall>>
searchVars == <<products, searchArgs, searchPc, searchOut>>
autoVars   == <<autoIn, autoOut>>
poolVars   == <<poolFree, tasks>>
acctVars   == <<acctUsers, acctCalls>>
lateVars   == <<poolVars, acctVars>>
vars == <<whereVars, findVars, bulkVars, submitVars, tierVars, rewardVars,
          simVars, crudVars, searchVars, autoVars, lateVars>>

(***************************************************************************)
(* JavaScript values that reach the query builder, tagged by typeof.       *)
(* A string is a sequence of one-character strings.                        *)
(***************************************************************************)
Undefined == [t |-> "undefined", v |-> <<>>]
Null      == [t |-> "null", v |-> <<>>]
Num(n)    == [t |-> "number", v |-> n]
Str(s)    == [t |-> "string", v |-> s]
Arr(xs)   == [t |-> "array", v |-> xs]

\* value.includes('%')
Includes(s, c) == \E i \in DOMAIN s : s[i] = c

\* Sequences over S of length 0..n
SeqUpTo(S, n) == UNION {[1..k -> S] : k \in 0..n}

\* Tokens of query text: a placeholder $n, or an integer written into the text.
Ph(n)     == [k |-> "ph", x |-> n]
IntLit(n) == [k |-> "int", x |-> n]
ValLit(v) == [k |-> "val", x |-> v]

(***************************************************************************)
(* BaseRepository.buildWhereClause                                         *)
(***************************************************************************)
\* value.map(() => `$${paramIndex++}`)
Placeholders(n, paramIndex) == [j \in 1..n |-> Ph(paramIndex + j - 1)]

ArrayCondition(key, value, paramIndex) ==
    [key |-> key, op |-> "IN", args |-> Placeholders(Len(value.v), paramIndex)]

LikeCondition(key, value, paramIndex) ==
    [key |-> key, op |-> "ILIKE", args |-> <<Ph(paramIndex)>>]

\* A builder that writes the value into the text instead of binding it.
EqConditionInlined(key, value, paramIndex) ==
    [key |-> key, op |-> "=", args |-> <<ValLit(value)>>]

\* A builder that matches every string with ILIKE, not only those with '%'.
EqConditionAsLike(key, value, paramIndex) ==
    [key |-> key, op |-> IF value.t = "string" THEN "ILIKE" ELSE "=", args |-> <<Ph(paramIndex)>>]

EqCondition(key, value, paramIndex) ==
    [key |-> key, op |-> "=", args |-> <<Ph(paramIndex)>>]

\* One iteration of the loop over Object.entries(filters).
WhereStep(st, key, value) ==
    IF value.t \in {"undefined", "null"} THEN st
    ELSE IF value.t = "array" THEN
        [conditions |-> Append(st.conditions, ArrayCondition(key, value, st.paramIndex)),
         params     |-> st.params \o value.v,
         paramIndex |-> st.paramIndex + Len(value.v)]
    ELSE IF value.t = "string" /\ Includes(value.v, "%") THEN
        [conditions |-> Append(st.conditions, LikeCondition(key, value, st.paramIndex)),
         params     |-> Append(st.params, value),
         paramIndex |-> st.paramIndex + 1]
    ELSE
        [conditions |-> Append(st.conditions, EqCondition(key, value, st.paramIndex)),
         params     |-> Append(st.params, value),
         paramIndex |-> st.paramIndex + 1]

RECURSIVE WhereLoop(_, _, _)
WhereLoop(filters, i, st) ==
    IF i > Len(filters) THEN st
    ELSE WhereLoop(filters, i + 1, WhereStep(st, filters[i].key, filters[i].value))

\* clause is the list of conditions joined by AND; the empty list is ''.
buildWhereClause(filters) ==
    LET st == WhereLoop(filters, 1, [conditions |-> <<>>, params |-> <<>>, paramIndex |-> 1])
    IN  [clause |-> st.conditions, params |-> st.params]

(***************************************************************************)
(* ProductRepository.search: the WHERE text and its parameters             *)
(***************************************************************************)
Bool(b) == [t |-> "boolean", v |-> b]

\* JavaScript truthiness of a tagged value
Truthy(value) ==
    CASE value.t \in {"undefined", "null"} -> FALSE
      [] value.t = "string"  -> Len(value.v) > 0
      [] value.t = "number"  -> value.v # 0
      [] value.t = "boolean" -> value.v
      [] OTHER -> TRUE

\* searchFilters.X.map(() => `${paramIndex++}`): the index itself is written
\* into the text (the template has no '$' before the interpolation).
SearchPlaceholders(n, paramIndex) == [j \in 1..n |-> IntLit(paramIndex + j - 1)]

\* if (searchFilters.query) { ... @@ plainto_tsquery('english', ${paramIndex}) }
QueryFacet(st, value) ==
    IF Truthy(value) THEN
        [conditions |-> Append(st.conditions,
                          [key |-> "fulltext", op |-> "@@", args |-> <<IntLit(st.paramIndex)>>]),
         params     |-> Append(st.params, value),
         paramIndex |-> st.paramIndex + 1]
    ELSE st

\* if (searchFilters.X && searchFilters.X.length > 0) { X IN (...) }
ListFacet(st, column, value) ==
    IF Truthy(value) /\ Len(value.v) > 0 THEN
        [conditions |-> Append(st.conditions,
                          [key |-> column, op |-> "IN",
                           args |-> SearchPlaceholders(Len(value.v), st.paramIndex)]),
         params     |-> st.params \o value.v,
         paramIndex |-> st.paramIndex + Len(value.v)]
    ELSE st

\* if (searchFilters.X) { X BETWEEN ${paramIndex} AND ${paramIndex + 1} }
RangeFacet(st, column, value) ==
    IF Truthy(value) THEN
        [conditions |-> Append(st.conditions,
                          [key |-> column, op |-> "BETWEEN",
                           args |-> <<IntLit(st.paramIndex), IntLit(st.paramIndex + 1)>>]),
         params     |-> st.params \o <<value.v[1], value.v[2]>>,
         paramIndex |-> st.paramIndex + 2]
    ELSE st

\* if (searchFilters.X !== undefined) { X = ${paramIndex++} }
FlagFacet(st, column, value) ==
    IF value.t # "undefined" THEN
        [conditions |-> Append(st.conditions,
                          [key |-> column, op |-> "=", args |-> <<IntLit(st.paramIndex)>>]),
         params     |-> Append(st.params, value),
         paramIndex |-> st.paramIndex + 1]
    ELSE st

\* The facets in the order the code tests them (lines 97-163).
searchWhere(searchFilters) ==
    LET s0 == [conditions |-> <<>>, params |-> <<>>, paramIndex |-> 1]
        s1 == QueryFacet(s0, searchFilters.query)
        s2 == ListFacet(s1, "category", searchFilters.category)
        s3 == ListFacet(s2, "brand", searchFilters.brand)
        s4 == ListFacet(s3, "country", searchFilters.country)
        s5 == RangeFacet(s4, "mrp", searchFilters.priceRange)
        s6 == FlagFacet(s5, "is_regional_exclusive", searchFilters.isRegional)
        s7 == FlagFacet(s6, "is_npd", searchFilters.isNpd)
        s8 == ListFacet(s7, "verification_status", searchFilters.verificationStatus)
        s9 == RangeFacet(s8, "created_at", searchFilters.dateRange)
    IN  [clause |-> s9.conditions, params |-> s9.params, paramIndex |-> s9.paramIndex]

(***************************************************************************)
(* Parked values: a specification that does not exercise a subsystem holds *)
(* that subsystem's variables at these values.                             *)
(***************************************************************************)
WhereIdle ==
    /\ builder = "none" /\ wherePc = "idle"
    /\ inA = <<>> /\ inB = <<>> /\ outA = <<>> /\ outB = <<>>
FindIdle ==
    /\ table = {} /\ findPc = "parked" /\ findArgs = <<>> /\ findQuery = <<>>
    /\ findData = <<>> /\ findTotal = <<>> /\ findSnap = {} /\ writes = 0
BulkIdle ==
    /\ bulkPc = "parked" /\ bulkItems = <<>> /\ bulkIdx = 0 /\ bulkTable = {}
    /\ bulkBefore = {} /\ bulkTx = <<>> /\ bulkResult = "none"
SubmitIdle ==
    /\ submissions = {} /\ now = 0 /\ reqs = <<>> /\ totalSubs = <<>>
TierIdle ==
    /\ users = <<>> /\ tierConfigs = <<>> /\ lastTier = <<>>
RewardIdle ==
    /\ rewardIn = <<>> /\ rewardOut = <<>>
SimIdle ==
    /\ simCatalog = <<>> /\ simArgs = <<>> /\ simPc = "parked" /\ simOut = <<>>
CrudIdle ==
    /\ crudTable = {} /\ crudCall = <<>>
SearchIdle ==
    /\ products = {} /\ searchArgs = <<>> /\ searchPc = "parked" /\ searchOut = <<>>
AutoIdle ==
    /\ autoIn = <<>> /\ autoOut = <<>>
LaterIdle == SimIdle /\ CrudIdle /\ SearchIdle /\ AutoIdle
PoolIdle ==
    /\ poolFree = 0 /\ tasks = <<>>
AcctIdle ==
    /\ acctUsers = {} /\ acctCalls = <<>>
LateIdle == PoolIdle /\ AcctIdle

(***************************************************************************)
(* Inputs of the query-builder pair run                                    *)
(***************************************************************************)
MaxList == 2
MaxFacets == 2

FilterKeys == {"name", "qty"}
PlainScalars == {Num(1), Num(2), Str(<<"a">>), Str(<<"b">>)}
PatternStrings == {Str(<<"a", "%">>), Str(<<"%", "b">>)}
ListElems == {Num(1), Num(2)}
FilterValues ==
    {Undefined, Null} \cup PlainScalars \cup PatternStrings
        \cup {Arr(xs) : xs \in SeqUpTo(ListElems, MaxList)}

\* Object.entries order: a sequence of entries with distinct keys
KeyOrders == {ks \in SeqUpTo(FilterKeys, Cardinality(FilterKeys)) :
                \A i, j \in DOMAIN ks : i # j => ks[i] # ks[j]}
FilterSetsOver(ks) ==
    {[i \in DOMAIN ks |-> [key |-> ks[i], value |-> vs[i]]] : vs \in [DOMAIN ks -> FilterValues]}

\* The shape of a filter value: which branch it takes and how many
\* placeholders it needs, nothing of its content.
Shape(value) ==
    CASE value.t = "undefined" -> <<"undefined", 0>>
      [] value.t = "null"      -> <<"null", 0>>
      [] value.t = "array"     -> <<"array", Len(value.v)>>
      [] value.t = "string" /\ Includes(value.v, "%") -> <<"pattern", 0>>
      [] OTHER -> <<"plain", 0>>

SameShape(fa, fb) ==
    /\ Len(fa) = Len(fb)
    /\ \A i \in DOMAIN fa : fa[i].key = fb[i].key /\ Shape(fa[i].value) = Shape(fb[i].value)

\* Search facets
Facets == {"query", "category", "brand", "country", "priceRange", "isRegional",
           "isNpd", "verificationStatus", "dateRange"}
ListFacets == {"category", "brand", "country", "verificationStatus"}
RangeFacets == {"priceRange", "dateRange"}
FlagFacets == {"isRegional", "isNpd"}
FacetStrings == {Str(<<"a">>), Str(<<"b">>)}
FacetLists ==
    {<<>>, <<Str(<<"a">>)>>, <<Str(<<"b">>)>>, <<Str(<<"a">>), Str(<<"b">>)>>,
     <<Str(<<"b">>), Str(<<"a">>)>>}
FacetValues(f) ==
    CASE f = "query"       -> {Str(<<>>)} \cup FacetStrings
      [] f \in ListFacets  -> {Null} \cup {Arr(xs) : xs \in FacetLists}
      [] f \in RangeFacets -> {Null, Arr(<<Num(1), Num(2)>>), Arr(<<Num(2), Num(2)>>)}
      [] OTHER             -> {Null, Bool(TRUE), Bool(FALSE)}
FacetChoices(f, present) == IF f \in present THEN FacetValues(f) ELSE {Undefined}
SearchFiltersWith(present) ==
    [query : FacetChoices("query", present),
     category : FacetChoices("category", present),
     brand : FacetChoices("brand", present),
     country : FacetChoices("country", present),
     priceRange : FacetChoices("priceRange", present),
     isRegional : FacetChoices("isRegional", present),
     isNpd : FacetChoices("isNpd", present),
     verificationStatus : FacetChoices("verificationStatus", present),
     dateRange : FacetChoices("dateRange", present)]
SearchFilterSets ==
    UNION {SearchFiltersWith(present) : present \in {P \in SUBSET Facets : Cardinality(P) <= MaxFacets}}

\* The free-text query is compared by presence (it is no facet); a facet by Shape.
FacetShape(f, value) ==
    IF f = "query" THEN <<"query", IF Truthy(value) THEN 1 ELSE 0>> ELSE Shape(value)
FacetClass(f, value) ==
    {w \in FacetValues(f) \cup {Undefined} : FacetShape(f, w) = FacetShape(f, value)}
SameFacetShapes(sa) ==
    [query : FacetClass("query", sa.query),
     category : FacetClass("category", sa.category),
     brand : FacetClass("brand", sa.brand),
     country : FacetClass("country", sa.country),
     priceRange : FacetClass("priceRange", sa.priceRange),
     isRegional : FacetClass("isRegional", sa.isRegional),
     isNpd : FacetClass("isNpd", sa.isNpd),
     verificationStatus : FacetClass("verificationStatus", sa.verificationStatus),
     dateRange : FacetClass("dateRange", sa.dateRange)]

(***************************************************************************)
(* The pair run: one builder applied to two inputs of the same shape       *)
(***************************************************************************)
WhereInit ==
    /\ wherePc = "input" /\ outA = <<>> /\ outB = <<>>
    /\ \/ /\ builder = "buildWhereClause"
          /\ \E ks \in KeyOrders : \E fa \in FilterSetsOver(ks) :
               \E fb \in {f \in FilterSetsOver(ks) : SameShape(fa, f)} :
                  inA = fa /\ inB = fb
       \/ /\ builder = "search"
          /\ \E sa \in SearchFilterSets : \E sb \in SameFacetShapes(sa) :
                  inA = sa /\ inB = sb

BuildWherePair ==
    /\ wherePc = "input" /\ builder = "buildWhereClause"
    /\ outA' = buildWhereClause(inA)
    /\ outB' = buildWhereClause(inB)
    /\ wherePc' = "built"
    /\ UNCHANGED <<builder, inA, inB, findVars, bulkVars, submitVars, tierVars, rewardVars>>
    /\ UNCHANGED <<simVars, crudVars, searchVars, autoVars>>
    /\ UNCHANGED lateVars

SearchWherePair ==
    /\ wherePc = "input" /\ builder = "search"
    /\ outA' = searchWhere(inA)
    /\ outB' = searchWhere(inB)
    /\ wherePc' = "built"
    /\ UNCHANGED <<builder, inA, inB, findVars, bulkVars, submitVars, tierVars, rewardVars>>
    /\ UNCHANGED <<simVars, crudVars, searchVars, autoVars>>
    /\ UNCHANGED lateVars

WhereNext == BuildWherePair \/ SearchWherePair
InitWhere == WhereInit /\ FindIdle /\ BulkIdle /\ SubmitIdle /\ TierIdle /\ RewardIdle /\ LaterIdle /\ LateIdle
SpecWhere == InitWhere /\ [][WhereNext]_vars

(***************************************************************************)
(* BaseRepository.buildOrderClause and buildLimitClause                    *)
(***************************************************************************)
\* No sorts: ORDER BY <primaryKey> DESC
buildOrderClause(sorts) ==
    IF Len(sorts) = 0 THEN <<[field |-> "id", direction |-> "DESC"]>> ELSE sorts

\* (page - 1) * limit, taken when no truthy offset is given
PageOffset(page, limit) == (page - 1) * limit

\* Placeholders are numbered from the clause's own parameter list:
\* `$${params.length + 1}`.
buildLimitClause(pagination) ==
    LET c1 == IF Truthy(pagination.limit)
              THEN [clause |-> <<[kw |-> "LIMIT", arg |-> Ph(1)]>>, params |-> <<pagination.limit>>]
              ELSE [clause |-> <<>>, params |-> <<>>]
        n  == Len(c1.params) + 1
    IN  IF Truthy(pagination.offset) THEN
            [clause |-> Append(c1.clause, [kw |-> "OFFSET", arg |-> Ph(n)]),
             params |-> Append(c1.params, pagination.offset)]
        ELSE IF Truthy(pagination.page) /\ Truthy(pagination.limit) THEN
            [clause |-> Append(c1.clause, [kw |-> "OFFSET", arg |-> Ph(n)]),
             params |-> Append(c1.params, Num(PageOffset(pagination.page.v, pagination.limit.v)))]
        ELSE c1

(***************************************************************************)
(* The relational store: how a parameterized SELECT is answered.           *)
(* Columns of the modelled table: id (integer, primary key), name (text),  *)
(* qty (integer, nullable).                                                *)
(***************************************************************************)
ColumnType(key) == IF key = "name" THEN "text" ELSE "int"

Lower(c) == IF c = "A" THEN "a" ELSE IF c = "B" THEN "b" ELSE c

\* text ILIKE pattern: % matches any run, _ any one character
RECURSIVE Like(_, _)
Like(text, pattern) ==
    IF Len(pattern) = 0 THEN Len(text) = 0
    ELSE IF Head(pattern) = "%" THEN
        Like(text, Tail(pattern)) \/ (Len(text) > 0 /\ Like(Tail(text), pattern))
    ELSE IF Head(pattern) = "_" THEN
        Len(text) > 0 /\ Like(Tail(text), Tail(pattern))
    ELSE
        /\ Len(text) > 0
        /\ Lower(Head(text)) = Lower(Head(pattern))
        /\ Like(Tail(text), Tail(pattern))

\* The value a token of the text stands for
ArgValue(tok, params) ==
    CASE tok.k = "ph"  -> params[tok.x]
      [] tok.k = "int" -> Num(tok.x)
      [] OTHER         -> tok.x

\* SQL equality: never true of NULL, and typed
SqlEq(a, b) ==
    IF a.t = b.t /\ a.t \in {"number", "string", "boolean"} THEN a.v = b.v ELSE FALSE

\* A bound value is acceptable for a column (a non-numeric string bound to
\* an integer column is "invalid input syntax")
ArgOk(key, value) ==
    \/ value.t \in {"null", "undefined"}
    \/ ColumnType(key) = "text" /\ value.t \in {"string", "number"}
    \/ ColumnType(key) = "int" /\ value.t = "number"

PlaceholdersUsed(q) ==
    UNION {{c.args[i].x : i \in {j \in DOMAIN c.args : c.args[j].k = "ph"}}
           : c \in {q.where[i] : i \in DOMAIN q.where}}
      \cup {q.limit[i].arg.x : i \in {j \in DOMAIN q.limit : q.limit[j].arg.k = "ph"}}

\* Bind: the statement's placeholders are exactly $1..$n for the n values sent
BindOk(q) == PlaceholdersUsed(q) = 1..Len(q.params)

CondOk(c, params) ==
    /\ Len(c.args) > 0                       \* IN () is a syntax error
    /\ \A i \in DOMAIN c.args : ArgOk(c.key, ArgValue(c.args[i], params))
    /\ c.op = "ILIKE" => ColumnType(c.key) = "text"

LimitOk(q) ==
    \A i \in DOMAIN q.limit :
        LET v == ArgValue(q.limit[i].arg, q.params) IN v.t = "number" /\ v.v >= 0

StatementOk(q) ==
    /\ BindOk(q)
    /\ \A i \in DOMAIN q.where : CondOk(q.where[i], q.params)
    /\ LimitOk(q)

RowMatches(row, c, params) ==
    CASE c.op = "IN" -> \E i \in DOMAIN c.args : SqlEq(row[c.key], ArgValue(c.args[i], params))
      [] c.op = "ILIKE" ->
            LET p == ArgValue(c.args[1], params)
            IN  row[c.key].t = "string" /\ p.t = "string" /\ Like(row[c.key].v, p.v)
      [] OTHER -> SqlEq(row[c.key], ArgValue(c.args[1], params))

Matching(tbl, q) ==
    {r \in tbl : \A i \in DOMAIN q.where : RowMatches(r, q.where[i], q.params)}

\* ORDER BY on integer columns; NULL sorts as larger than every value
SortKey(row, field) == IF row[field].t = "number" THEN row[field].v ELSE 1000000

RECURSIVE Precedes(_, _, _, _)
\* r1 may stand before r2 under order[i..]
Precedes(r1, r2, order, i) ==
    IF i > Len(order) THEN TRUE
    ELSE LET a == SortKey(r1, order[i].field)
             b == SortKey(r2, order[i].field)
         IN  IF a = b THEN Precedes(r1, r2, order, i + 1)
             ELSE IF order[i].direction = "ASC" THEN a < b ELSE a > b

\* Every ordering of rows the store may produce: any permutation that agrees
\* with ORDER BY (rows that tie may come in either order)
Orderings(rows, order) ==
    {ord \in [1..Cardinality(rows) -> rows] :
        /\ \A i, j \in DOMAIN ord : i # j => ord[i] # ord[j]
        /\ \A i, j \in DOMAIN ord : i < j => Precedes(ord[i], ord[j], order, 1)}

LimitOf(q, kw, default) ==
    IF \E i \in DOMAIN q.limit : q.limit[i].kw = kw
    THEN ArgValue(q.limit[CHOOSE i \in DOMAIN q.limit : q.limit[i].kw = kw].arg, q.params).v
    ELSE default

\* LIMIT/OFFSET applied to an ordering
Slice(ord, q) ==
    LET off == LimitOf(q, "OFFSET", 0)
        lim == LimitOf(q, "LIMIT", Len(ord))
        last == IF off + lim < Len(ord) THEN off + lim ELSE Len(ord)
    IN  SubSeq(ord, off + 1, last)

(***************************************************************************)
(* BaseRepository.find: the data query and the count query are built from  *)
(* the same filters, dispatched together (Promise.all) and answered by the *)
(* store one at a time, in either order.                                   *)
(***************************************************************************)
Pending == [st |-> "pending", rows |-> <<>>, full |-> <<>>, total |-> 0]

\* Lines 119-124: the data query, bound to [...whereParams, ...limitParams]
FindDataQuery(args) ==
    LET w == buildWhereClause(args.filters)
        l == buildLimitClause(args.pagination)
    IN  [where |-> w.clause, order |-> buildOrderClause(args.sorts), limit |-> l.clause,
         params |-> w.params \o l.params]

\* A count query that forgets the WHERE clause.
FindCountQueryNoWhere(args) ==
    [where |-> <<>>, order |-> <<>>, limit |-> <<>>, params |-> <<>>]

\* Lines 127-130: the count query, bound to whereParams
FindCountQuery(args) ==
    LET w == buildWhereClause(args.filters)
    IN  [where |-> w.clause, order |-> <<>>, limit |-> <<>>, params |-> w.params]

FindQueries(args) == [data |-> FindDataQuery(args), count |-> FindCountQuery(args)]

FindCall ==
    /\ findPc = "idle"
    /\ findQuery' = FindQueries(findArgs)
    /\ findData' = Pending /\ findTotal' = Pending
    /\ findPc' = "dispatched"
    /\ UNCHANGED <<table, findArgs, findSnap, writes>>
    /\ UNCHANGED <<whereVars, bulkVars, submitVars, tierVars, rewardVars>>
    /\ UNCHANGED <<simVars, crudVars, searchVars, autoVars>>
    /\ UNCHANGED lateVars

\* db.query(query, [...whereParams, ...limitParams])
FindReadData ==
    /\ findPc = "dispatched" /\ findData.st = "pending"
    /\ IF StatementOk(findQuery.data)
       THEN \E ord \in Orderings(Matching(table, findQuery.data), findQuery.data.order) :
               findData' = [st |-> "ok", rows |-> Slice(ord, findQuery.data),
                            full |-> ord, total |-> 0]
       ELSE findData' = [Pending EXCEPT !.st = "error"]
    /\ findSnap' = table
    /\ UNCHANGED <<table, findPc, findArgs, findQuery, findTotal, writes>>
    /\ UNCHANGED <<whereVars, bulkVars, submitVars, tierVars, rewardVars>>
    /\ UNCHANGED <<simVars, crudVars, searchVars, autoVars>>
    /\ UNCHANGED lateVars

\* db.query(countQuery, whereParams); total = parseInt(rows[0].total)
FindReadCount ==
    /\ findPc = "dispatched" /\ findTotal.st = "pending"
    /\ IF StatementOk(findQuery.count)
       THEN findTotal' = [Pending EXCEPT !.st = "ok",
                            !.total = Cardinality(Matching(table, findQuery.count))]
       ELSE findTotal' = [Pending EXCEPT !.st = "error"]
    /\ UNCHANGED <<table, findPc, findArgs, findQuery, findData, findSnap, writes>>
    /\ UNCHANGED <<whereVars, bulkVars, submitVars, tierVars, rewardVars>>
    /\ UNCHANGED <<simVars, crudVars, searchVars, autoVars>>
    /\ UNCHANGED lateVars

\* return { data: dataResult.rows, total }
FindReturn ==
    /\ findPc = "dispatched" /\ findData.st = "ok" /\ findTotal.st = "ok"
    /\ findPc' = "done"
    /\ UNCHANGED <<table, findArgs, findQuery, findData, findTotal, findSnap, writes>>
    /\ UNCHANGED <<whereVars, bulkVars, submitVars, tierVars, rewardVars>>
    /\ UNCHANGED <<simVars, crudVars, searchVars, autoVars>>
    /\ UNCHANGED lateVars

\* catch (error) { throw new DatabaseError(...) }: either query rejecting
\* rejects the Promise.all
FindThrow ==
    /\ findPc = "dispatched" /\ (findData.st = "error" \/ findTotal.st = "error")
    /\ findPc' = "failed"
    /\ UNCHANGED <<table, findArgs, findQuery, findData, findTotal, findSnap, writes>>
    /\ UNCHANGED <<whereVars, bulkVars, submitVars, tierVars, rewardVars>>
    /\ UNCHANGED <<simVars, crudVars, searchVars, autoVars>>
    /\ UNCHANGED lateVars

(***************************************************************************)
(* Concurrent writers: create, update and delete of other requests.  The   *)
(* counter writes counts those that land between find's two reads.         *)
(***************************************************************************)
MaxWrites == 2
MaxRows == 3
MaxPage == 2
MaxLimit == 2

BetweenReads ==
    findPc = "dispatched" /\ ((findData.st = "pending") # (findTotal.st = "pending"))

Counted == IF BetweenReads THEN writes + 1 ELSE writes

PageRows == [id : {Num(i) : i \in 1..MaxRows}, name : {Str(<<"a">>)}, qty : {Num(1), Num(2)}]

\* create(data): INSERT; a row whose id is taken violates the primary key
Create ==
    /\ findPc # "idle" /\ Counted <= MaxWrites
    /\ \E row \in PageRows :
          /\ \A r \in table : r.id # row.id
          /\ table' = table \cup {row}
    /\ writes' = Counted
    /\ UNCHANGED <<findPc, findArgs, findQuery, findData, findTotal, findSnap>>
    /\ UNCHANGED <<whereVars, bulkVars, submitVars, tierVars, rewardVars>>
    /\ UNCHANGED <<simVars, crudVars, searchVars, autoVars>>
    /\ UNCHANGED lateVars

\* delete(id): DELETE ... WHERE id = $1
Delete ==
    /\ findPc # "idle" /\ Counted <= MaxWrites
    /\ \E row \in table : table' = table \ {row}
    /\ writes' = Counted
    /\ UNCHANGED <<findPc, findArgs, findQuery, findData, findTotal, findSnap>>
    /\ UNCHANGED <<whereVars, bulkVars, submitVars, tierVars, rewardVars>>
    /\ UNCHANGED <<simVars, crudVars, searchVars, autoVars>>
    /\ UNCHANGED lateVars

\* update(id, {qty}): UPDATE ... SET qty = $2 WHERE id = $1
Update ==
    /\ findPc # "idle" /\ Counted <= MaxWrites
    /\ \E row \in table : \E q \in {Num(1), Num(2)} :
          /\ q # row.qty
          /\ table' = (table \ {row}) \cup {[row EXCEPT !.qty = q]}
    /\ writes' = Counted
    /\ UNCHANGED <<findPc, findArgs, findQuery, findData, findTotal, findSnap>>
    /\ UNCHANGED <<whereVars, bulkVars, submitVars, tierVars, rewardVars>>
    /\ UNCHANGED <<simVars, crudVars, searchVars, autoVars>>
    /\ UNCHANGED lateVars

(***************************************************************************)
(* Inputs of find                                                          *)
(***************************************************************************)
NoPagination == [page |-> Undefined, limit |-> Undefined, offset |-> Undefined]
PageLimit(p, l) == [page |-> Num(p), limit |-> Num(l), offset |-> Undefined]

DistinctIds(tbl) == \A r1, r2 \in tbl : r1.id = r2.id => r1 = r2

\* Filter correctness: rich filters over small tables, no pagination
FindRows == [id : {Num(1), Num(2)}, name : {Str(<<"a">>), Str(<<"A", "b">>)},
             qty : {Num(1), Null}]
FindFilterValues ==
    {Undefined, Null, Num(1), Num(2), Str(<<"a">>), Str(<<"A">>),
     Str(<<"a", "%">>), Str(<<"%", "B">>), Str(<<"_">>)}
        \cup {Arr(xs) : xs \in SeqUpTo({Num(1), Num(2)}, MaxList)}
FindFilterSets ==
    UNION {{[i \in DOMAIN ks |-> [key |-> ks[i], value |-> vs[i]]] :
              vs \in [DOMAIN ks -> FindFilterValues]} : ks \in KeyOrders}

FindInit ==
    /\ table \in {t \in SUBSET FindRows : DistinctIds(t)}
    /\ findArgs \in [filters : FindFilterSets, sorts : {<<>>}, pagination : {NoPagination}]
    /\ findPc = "idle" /\ findQuery = <<>> /\ findData = Pending /\ findTotal = Pending
    /\ findSnap = {} /\ writes = 0

\* Pagination: few filters, every sort and page over tables of up to MaxRows rows
PageFilterSets ==
    {<<>>, <<[key |-> "qty", value |-> Num(1)]>>, <<[key |-> "name", value |-> Str(<<"a", "%">>)]>>,
     <<[key |-> "qty", value |-> Null]>>, <<[key |-> "qty", value |-> Arr(<<Num(1), Num(2)>>)]>>}
PageSorts ==
    {<<>>, <<[field |-> "qty", direction |-> "ASC"]>>, <<[field |-> "qty", direction |-> "DESC"]>>,
     <<[field |-> "qty", direction |-> "DESC"], [field |-> "id", direction |-> "ASC"]>>}
PageLimitOffset(p, l, o) == [page |-> p, limit |-> l, offset |-> Num(o)]
Paginations ==
    {NoPagination} \cup {PageLimit(p, l) : p \in 1..MaxPage, l \in 1..MaxLimit}
        \cup {PageLimitOffset(p, l, o) : p \in {Undefined, Num(MaxPage)},
                                         l \in {Undefined, Num(1)}, o \in 0..1}

PageInit ==
    /\ table \in {t \in SUBSET PageRows : DistinctIds(t)}
    /\ findArgs \in [filters : PageFilterSets, sorts : PageSorts, pagination : Paginations]
    /\ findPc = "idle" /\ findQuery = <<>> /\ findData = Pending /\ findTotal = Pending
    /\ findSnap = {} /\ writes = 0

\* Concurrency: a find racing the writers
ConcInit ==
    /\ table \in {t \in SUBSET PageRows : DistinctIds(t)}
    /\ findArgs \in [filters : {<<>>, <<[key |-> "qty", value |-> Num(1)]>>},
                     sorts : {<<>>}, pagination : {NoPagination, PageLimit(1, 1)}]
    /\ findPc = "idle" /\ findQuery = <<>> /\ findData = Pending /\ findTotal = Pending
    /\ findSnap = {} /\ writes = 0

FindNext == FindCall \/ FindReadData \/ FindReadCount \/ FindReturn \/ FindThrow
ConcNext == FindNext \/ Create \/ Delete \/ Update

InitFind == FindInit /\ WhereIdle /\ BulkIdle /\ SubmitIdle /\ TierIdle /\ RewardIdle /\ LaterIdle /\ LateIdle
InitPage == PageInit /\ WhereIdle /\ BulkIdle /\ SubmitIdle /\ TierIdle /\ RewardIdle /\ LaterIdle /\ LateIdle
InitConc == ConcInit /\ WhereIdle /\ BulkIdle /\ SubmitIdle /\ TierIdle /\ RewardIdle /\ LaterIdle /\ LateIdle
SpecFind == InitFind /\ [][FindNext]_vars
SpecPage == InitPage /\ [][FindNext]_vars
SpecFindConc == InitConc /\ [][ConcNext]_vars

(***************************************************************************)
(* Properties of the query builder and of find                             *)
(***************************************************************************)
ClauseTokens(clause) ==
    UNION {{clause[i].args[j] : j \in DOMAIN clause[i].args} : i \in DOMAIN clause}

\* The values a filter set binds, in order: list elements and non-null scalars
RECURSIVE BoundValues(_)
BoundValues(filters) ==
    IF Len(filters) = 0 THEN <<>>
    ELSE LET v == Head(filters).value
         IN  (CASE v.t \in {"undefined", "null"} -> <<>>
                [] v.t = "array" -> v.v
                [] OTHER -> <<v>>) \o BoundValues(Tail(filters))

\* C1: two filter sets with the same keys, order and value shapes give the
\* same clause text; the text holds placeholders and indexes only, never a
\* value, and buildWhereClause returns the non-null values as its parameters.
\* The same for the WHERE text search builds from its facets.
C1_TextDependsOnShapeOnly ==
    wherePc = "built" =>
        /\ outA.clause = outB.clause
        /\ \A tok \in ClauseTokens(outA.clause) \cup ClauseTokens(outB.clause) :
              tok.k \in {"ph", "int"}
        /\ builder = "buildWhereClause" =>
              outA.params = BoundValues(inA) /\ outB.params = BoundValues(inB)

C1_Witness ==
    /\ wherePc = "built" /\ builder = "buildWhereClause"
    /\ Len(outA.clause) = 2 /\ outA.params # outB.params
    /\ \E i \in DOMAIN outA.clause : outA.clause[i].op = "IN"
    /\ \E i \in DOMAIN outA.clause : outA.clause[i].op = "="

\* What a filter entry asks of a row: list = membership, '%'-string =
\* case-insensitive pattern match, anything else = equality.
Sat(entry, row) ==
    LET v == entry.value
        c == row[entry.key]
    IN  CASE v.t = "array" -> \E i \in DOMAIN v.v : c.t = v.v[i].t /\ c.v = v.v[i].v
          [] v.t = "string" /\ Includes(v.v, "%") -> c.t = "string" /\ Like(c.v, v.v)
          [] v.t = "undefined" -> TRUE
          [] v.t = "null" -> c.t = "null"
          [] OTHER -> c.t = v.t /\ c.v = v.v

Returned == {findData.rows[i] : i \in DOMAIN findData.rows}

\* C2 as claimed: every returned row satisfies every entry of F, an entry
\* whose value is null included (read as equality with null).
C2_ReturnedRowsSatisfyEveryEntry ==
    findPc = "done" =>
        \A row \in Returned : \A i \in DOMAIN findArgs.filters :
            Sat(findArgs.filters[i], row)

\* C2 amended: every returned row satisfies every entry of F whose value is
\* neither null nor undefined (those entries are skipped and ask nothing).
C2_ReturnedRowsSatisfyNonNullEntries ==
    findPc = "done" =>
        \A row \in Returned : \A i \in DOMAIN findArgs.filters :
            findArgs.filters[i].value.t \notin {"null", "undefined"}
                => Sat(findArgs.filters[i], row)

C2_Witness ==
    /\ findPc = "done" /\ Returned # {} /\ Returned # table
    /\ \E i \in DOMAIN findArgs.filters : Shape(findArgs.filters[i].value)[1] = "pattern"
    /\ \E i \in DOMAIN findArgs.filters : Shape(findArgs.filters[i].value) = <<"array", 2>>

\* The rows a filter set selects, by Sat
Selected(tbl, filters) == {r \in tbl : \A i \in DOMAIN filters : Sat(filters[i], r)}

\* C3 as claimed: find(F, sorts, {page: p, limit: l}) returns, for every F
\* (here: every F without an empty list), at most l items, the slice of the
\* filtered ordered rows that starts at offset (p-1)*l.
C3_PageIsContiguousSlice ==
    (/\ findPc \in {"done", "failed"}
     /\ findArgs.pagination.page.t = "number"
     /\ findArgs.pagination.limit.t = "number"
     /\ findArgs.pagination.offset.t = "undefined"
     /\ \A i \in DOMAIN findArgs.filters : Shape(findArgs.filters[i].value) # <<"array", 0>>)
    => /\ findPc = "done"
       /\ LET p == findArgs.pagination.page.v
              l == findArgs.pagination.limit.v
              full == findData.full
              last == IF (p - 1) * l + l < Len(full) THEN (p - 1) * l + l ELSE Len(full)
          IN  /\ Len(findData.rows) <= l
              /\ full \in Orderings(Matching(findSnap, findQuery.count), findQuery.data.order)
              /\ findData.rows = SubSeq(full, (p - 1) * l + 1, last)

\* The offset the data query of a find runs with (no OFFSET clause: 0)
EffectiveOffset(q) == LimitOf(q, "OFFSET", 0)

\* C24: the data query runs with the explicit offset whenever one is
\* supplied, offset 0 together with a page included, and with
\* (page - 1) * limit only when no offset is supplied and page and limit are.
C24_ExplicitOffsetWins ==
    findPc # "idle" =>
        LET pg == findArgs.pagination
        IN  IF pg.offset.t = "number"
            THEN EffectiveOffset(findQuery.data) = pg.offset.v
            ELSE IF pg.page.t = "number" /\ pg.limit.t = "number"
            THEN EffectiveOffset(findQuery.data) = (pg.page.v - 1) * pg.limit.v
            ELSE EffectiveOffset(findQuery.data) = 0

\* C6: with no write between the two reads the total is the number of rows
\* matching the filters in the state the page was read from; a total that
\* differs from it stems from a write between the reads.
C6_TotalConsistentWithoutWrites ==
    findPc = "done" =>
        (writes = 0 => findTotal.total = Cardinality(Selected(findSnap, findArgs.filters)))

\* ... and with a write between the reads find returns normally with a total
\* that differs from that number.
C6_Witness ==
    /\ findPc = "done" /\ writes > 0
    /\ findTotal.total # Cardinality(Selected(findSnap, findArgs.filters))

(***************************************************************************)
(* BaseRepository.bulkInsert inside DatabaseConnection.transaction.        *)
(* bulkTable is the committed content of the table; the rows inserted by   *)
(* the open transaction are in bulkTx.pending until COMMIT.                *)
(***************************************************************************)
MaxBatch == 3

NoTx == [client |-> "none", state |-> "none", pending |-> {}, failedAt |-> 0,
         releases |-> 0, error |-> "none"]

BulkItemRows == [id : 1..MaxBatch, name : {"a", "null"}]

\* The INSERT is rejected: NOT NULL on name, or the primary key is taken
Rejected(row, tbl, pending) ==
    \/ row.name = "null"
    \/ \E r \in tbl \cup pending : r.id = row.id

\* An insert sent outside the transaction is committed at once.
AutocommitInsert(tbl, pending, row) == [table |-> tbl \cup {row}, pending |-> pending]

\* db.queryWithClient(client, INSERT ...): the row belongs to the transaction
TxInsert(tbl, pending, row) == [table |-> tbl, pending |-> pending \cup {row}]

\* A bulkInsert that goes to db.transaction whatever the batch holds.
BulkEntryAlwaysConnect(items) == "connect"

\* if (items.length === 0) { return []; }: the empty batch returns before
\* getDatabase() and db.transaction are reached
BulkEntry(items) == IF Len(items) = 0 THEN "returned" ELSE "connect"

\* bulkInsert up to the call of db.transaction
BulkCall ==
    /\ bulkPc = "idle"
    /\ bulkBefore' = bulkTable
    /\ bulkPc' = BulkEntry(bulkItems)
    /\ bulkResult' = IF bulkPc' = "returned" THEN "empty" ELSE "none"
    /\ UNCHANGED <<bulkItems, bulkIdx, bulkTable, bulkTx>>
    /\ UNCHANGED <<whereVars, findVars, submitVars, tierVars, rewardVars>>
    /\ UNCHANGED <<simVars, crudVars, searchVars, autoVars>>
    /\ UNCHANGED lateVars

\* const client = await this.getClient()
BulkGetClient ==
    /\ bulkPc = "connect"
    /\ \/ /\ bulkTx' = [bulkTx EXCEPT !.client = "held"]
          /\ bulkPc' = "begin" /\ UNCHANGED bulkResult
       \/ /\ bulkTx' = [bulkTx EXCEPT !.error = "DatabaseError"]
          /\ bulkPc' = "thrown" /\ bulkResult' = "DatabaseError"
    /\ UNCHANGED <<bulkItems, bulkIdx, bulkTable, bulkBefore>>
    /\ UNCHANGED <<whereVars, findVars, submitVars, tierVars, rewardVars>>
    /\ UNCHANGED <<simVars, crudVars, searchVars, autoVars>>
    /\ UNCHANGED lateVars

\* await client.query('BEGIN')
BulkBegin ==
    /\ bulkPc = "begin"
    /\ \/ /\ bulkTx' = [bulkTx EXCEPT !.state = "open"]
          /\ bulkPc' = "insert" /\ bulkIdx' = 1
       \/ /\ bulkTx' = [bulkTx EXCEPT !.error = "pg"]
          /\ bulkPc' = "rollback" /\ UNCHANGED bulkIdx
    /\ UNCHANGED <<bulkItems, bulkTable, bulkBefore, bulkResult>>
    /\ UNCHANGED <<whereVars, findVars, submitVars, tierVars, rewardVars>>
    /\ UNCHANGED <<simVars, crudVars, searchVars, autoVars>>
    /\ UNCHANGED lateVars

\* for (const item of items) { await db.queryWithClient(client, INSERT, values) }
BulkInsertItem ==
    /\ bulkPc = "insert" /\ bulkIdx <= Len(bulkItems)
    /\ LET row == bulkItems[bulkIdx]
       IN  \/ /\ ~Rejected(row, bulkTable, bulkTx.pending)
              /\ LET e == TxInsert(bulkTable, bulkTx.pending, row)
                 IN  /\ bulkTable' = e.table
                     /\ bulkTx' = [bulkTx EXCEPT !.pending = e.pending]
              /\ bulkIdx' = bulkIdx + 1
              /\ UNCHANGED bulkPc
           \/ \* the statement fails: a constraint, or the storage itself
              /\ bulkTx' = [bulkTx EXCEPT !.state = "aborted", !.failedAt = bulkIdx,
                                          !.error = "DatabaseError"]
              /\ bulkPc' = "rollback"
              /\ UNCHANGED <<bulkTable, bulkIdx>>
    /\ UNCHANGED <<bulkItems, bulkBefore, bulkResult>>
    /\ UNCHANGED <<whereVars, findVars, submitVars, tierVars, rewardVars>>
    /\ UNCHANGED <<simVars, crudVars, searchVars, autoVars>>
    /\ UNCHANGED lateVars

\* await client.query('COMMIT')
BulkCommit ==
    /\ bulkPc = "insert" /\ bulkIdx > Len(bulkItems)
    /\ \/ /\ bulkTable' = bulkTable \cup bulkTx.pending
          /\ bulkTx' = [bulkTx EXCEPT !.state = "committed", !.pending = {}]
          /\ bulkPc' = "release"
       \/ /\ bulkTx' = [bulkTx EXCEPT !.state = "aborted", !.error = "pg"]
          /\ bulkPc' = "rollback"
          /\ UNCHANGED bulkTable
    /\ UNCHANGED <<bulkItems, bulkIdx, bulkBefore, bulkResult>>
    /\ UNCHANGED <<whereVars, findVars, submitVars, tierVars, rewardVars>>
    /\ UNCHANGED <<simVars, crudVars, searchVars, autoVars>>
    /\ UNCHANGED lateVars

\* catch (error) { await client.query('ROLLBACK'); throw error }
\* A ROLLBACK that fails throws its own error; the transaction was never
\* committed, so its rows are lost with the session either way.
BulkRollback ==
    /\ bulkPc = "rollback"
    /\ \/ bulkTx' = [bulkTx EXCEPT !.state = "rolledback", !.pending = {}]
       \/ bulkTx' = [bulkTx EXCEPT !.state = "lost", !.pending = {}, !.error = "pg"]
    /\ bulkPc' = "release"
    /\ UNCHANGED <<bulkItems, bulkIdx, bulkTable, bulkBefore, bulkResult>>
    /\ UNCHANGED <<whereVars, findVars, submitVars, tierVars, rewardVars>>
    /\ UNCHANGED <<simVars, crudVars, searchVars, autoVars>>
    /\ UNCHANGED lateVars

\* finally { client.release() }
BulkRelease ==
    /\ bulkPc = "release"
    /\ bulkTx' = [bulkTx EXCEPT !.client = "released", !.releases = @ + 1]
    /\ IF bulkTx.error = "none"
       THEN bulkPc' = "returned" /\ bulkResult' = "rows"
       ELSE bulkPc' = "thrown" /\ bulkResult' = bulkTx.error
    /\ UNCHANGED <<bulkItems, bulkIdx, bulkTable, bulkBefore>>
    /\ UNCHANGED <<whereVars, findVars, submitVars, tierVars, rewardVars>>
    /\ UNCHANGED <<simVars, crudVars, searchVars, autoVars>>
    /\ UNCHANGED lateVars

BulkInit ==
    /\ bulkTable \in SUBSET {[id |-> 1, name |-> "a"]}
    /\ bulkItems \in SeqUpTo(BulkItemRows, MaxBatch)
    /\ bulkPc = "idle" /\ bulkIdx = 0 /\ bulkBefore = {} /\ bulkTx = NoTx
    /\ bulkResult = "none"

BulkNext ==
    BulkCall \/ BulkGetClient \/ BulkBegin \/ BulkInsertItem \/ BulkCommit
        \/ BulkRollback \/ BulkRelease
InitBulk == BulkInit /\ WhereIdle /\ FindIdle /\ SubmitIdle /\ TierIdle /\ RewardIdle /\ LaterIdle /\ LateIdle
SpecBulk == InitBulk /\ [][BulkNext]_vars

\* C4: once the insert of an item of the batch has failed, the table holds
\* what it held before the call, and the call ends by throwing.
C4_FailedBatchPersistsNothing ==
    (bulkPc # "parked" /\ bulkTx.failedAt > 0) =>
        /\ bulkTable = bulkBefore
        /\ bulkPc \in {"rollback", "release", "thrown"}
        /\ bulkPc = "thrown" => bulkResult = "DatabaseError" \/ bulkResult = "pg"

\* The last item of a batch of MaxBatch fails after the others were inserted.
C4_Witness ==
    /\ bulkPc = "thrown" /\ bulkTx.failedAt = Len(bulkItems) /\ Len(bulkItems) >= 2
    /\ bulkTable = bulkBefore

\* C16: every storage failure that reaches the caller of bulkInsert /
\* transaction is a DatabaseError, the failures of BEGIN, COMMIT and ROLLBACK
\* and of the connection checkout included.
C16_EveryFailureIsDatabaseError ==
    bulkPc = "thrown" => bulkResult = "DatabaseError"

\* C20: bulkInsert of the empty batch returns the empty list without any
\* storage operation: no connection is checked out, no transaction is opened
\* and no row is written.
C20_EmptyBatchTouchesNothing ==
    (bulkItems = <<>> /\ bulkPc \notin {"parked", "idle"})
        => /\ bulkPc = "returned" /\ bulkResult = "empty"
           /\ bulkTx = NoTx
           /\ bulkTable = bulkBefore

C20_Witness ==
    /\ bulkItems = <<>> /\ bulkPc = "returned" /\ bulkResult = "empty"
    /\ bulkTable # {}

\* C28: on every path through transaction() a client that was checked out
\* is released exactly once, the transaction is ended by a successful
\* COMMIT or by an attempted ROLLBACK and never by both, and when the
\* callback threw, the caller receives the callback's error.
C28_ReleasedOnceWithCallbackError ==
    (bulkPc \in {"returned", "thrown"} /\ bulkTx.client # "none") =>
        /\ bulkTx.client = "released" /\ bulkTx.releases = 1
        /\ bulkTx.state \in {"committed", "rolledback", "lost"}
        /\ (bulkTx.state = "committed") <=> (bulkPc = "returned")
        /\ bulkTx.failedAt > 0 => bulkResult = "DatabaseError"

(***************************************************************************)
(* POST /submissions: duplicate check, INSERT, counter update, response.   *)
(* Each request is a sequence of awaited statements on the shared pool;    *)
(* requests interleave at every await.  Time is counted in hours.          *)
(***************************************************************************)
MaxReqs == 2
MaxTime == 36
TickHours == 12
Day == 24

SubmitUsers == {1, 2}
\* Candidate names; a name may hold the LIKE wildcard characters
ProductNames == {<<"a">>, <<"A">>, <<"%">>}
Brands == {<<"x">>, <<"y">>}

EqIgnoreCase(a, b) ==
    /\ Len(a) = Len(b)
    /\ \A i \in 1..Len(a) : Lower(a[i]) = Lower(b[i])

\* WHERE user_id = $1 AND submitted_product_name ILIKE $2
\*   AND submitted_brand ILIKE $3 AND created_at > NOW() - INTERVAL '24 hours'
DuplicateRows(tbl, user, name, brand, at) ==
    {r \in tbl : /\ r.user = user
                 /\ Like(r.name, name)
                 /\ Like(r.brand, brand)
                 /\ r.at > at - Day}

\* router.post('/', authenticateToken, ...) starts handling a request; calls
\* lists the storage and repository calls the request has made so far
Arrive ==
    /\ Len(reqs) < MaxReqs
    /\ \E u \in SubmitUsers, n \in ProductNames, b \in Brands :
         reqs' = Append(reqs, [pc |-> "check", user |-> u, name |-> n, brand |-> b,
                               status |-> 0, calls |-> <<>>])
    /\ UNCHANGED <<submissions, now, totalSubs>>
    /\ UNCHANGED <<whereVars, findVars, bulkVars, tierVars, rewardVars>>
    /\ UNCHANGED <<simVars, crudVars, searchVars, autoVars>>
    /\ UNCHANGED lateVars

\* const duplicateCheck = await db.query(...); if (rows.length > 0) return 409
DuplicateCheck ==
    /\ \E i \in DOMAIN reqs :
         /\ reqs[i].pc = "check"
         /\ \/ LET r == reqs[i]
                   dup == DuplicateRows(submissions, r.user, r.name, r.brand, now)
                   c   == Append(r.calls, "duplicateCheck")
               IN  reqs' = [reqs EXCEPT ![i] =
                              IF dup # {} THEN [r EXCEPT !.pc = "done", !.status = 409, !.calls = c]
                              ELSE [r EXCEPT !.pc = "insert", !.calls = c]]
            \/ reqs' = [reqs EXCEPT ![i] = [@ EXCEPT !.pc = "done", !.status = 500,
                                                     !.calls = Append(@, "duplicateCheck")]]
    /\ UNCHANGED <<submissions, now, totalSubs>>
    /\ UNCHANGED <<whereVars, findVars, bulkVars, tierVars, rewardVars>>
    /\ UNCHANGED <<simVars, crudVars, searchVars, autoVars>>
    /\ UNCHANGED lateVars

\* const result = await db.query(`INSERT INTO npd_submissions ...`)
InsertSubmission ==
    /\ \E i \in DOMAIN reqs :
         /\ reqs[i].pc = "insert"
         /\ \/ /\ submissions' = submissions \cup
                     {[id |-> i, user |-> reqs[i].user, name |-> reqs[i].name,
                       brand |-> reqs[i].brand, at |-> now]}
               /\ reqs' = [reqs EXCEPT ![i] = [@ EXCEPT !.pc = "count",
                                                        !.calls = Append(@, "insert")]]
            \/ /\ reqs' = [reqs EXCEPT ![i] = [@ EXCEPT !.pc = "done", !.status = 500,
                                                        !.calls = Append(@, "insert")]]
               /\ UNCHANGED submissions
    /\ UNCHANGED <<now, totalSubs>>
    /\ UNCHANGED <<whereVars, findVars, bulkVars, tierVars, rewardVars>>
    /\ UNCHANGED <<simVars, crudVars, searchVars, autoVars>>
    /\ UNCHANGED lateVars

\* await db.query('UPDATE users SET total_submissions = total_submissions + 1');
\* res.status(201)
UpdateSubmissionCount ==
    /\ \E i \in DOMAIN reqs :
         /\ reqs[i].pc = "count"
         /\ \/ /\ totalSubs' = [totalSubs EXCEPT ![reqs[i].user] = @ + 1]
               /\ reqs' = [reqs EXCEPT ![i] = [@ EXCEPT !.pc = "done", !.status = 201,
                                                        !.calls = Append(@, "updateCount")]]
            \/ /\ reqs' = [reqs EXCEPT ![i] = [@ EXCEPT !.pc = "done", !.status = 500,
                                                        !.calls = Append(@, "updateCount")]]
               /\ UNCHANGED totalSubs
    /\ UNCHANGED <<submissions, now>>
    /\ UNCHANGED <<whereVars, findVars, bulkVars, tierVars, rewardVars>>
    /\ UNCHANGED <<simVars, crudVars, searchVars, autoVars>>
    /\ UNCHANGED lateVars

\* NOW() moves on
Tick ==
    /\ now + TickHours <= MaxTime
    /\ now' = now + TickHours
    /\ UNCHANGED <<submissions, reqs, totalSubs>>
    /\ UNCHANGED <<whereVars, findVars, bulkVars, tierVars, rewardVars>>
    /\ UNCHANGED <<simVars, crudVars, searchVars, autoVars>>
    /\ UNCHANGED lateVars

SubmitInit ==
    /\ submissions = {} /\ now = 0 /\ reqs = <<>>
    /\ totalSubs = [u \in SubmitUsers |-> 0]

SubmitNext ==
    Arrive \/ DuplicateCheck \/ InsertSubmission \/ UpdateSubmissionCount \/ Tick
InitSubmit == SubmitInit /\ WhereIdle /\ FindIdle /\ BulkIdle /\ TierIdle /\ RewardIdle /\ LaterIdle /\ LateIdle
SpecSubmit == InitSubmit /\ [][SubmitNext]_vars

\* C5: no two stored submissions of one user, created less than 24 hours
\* apart, have product names and brands that are equal ignoring case.
C5_NoTwoEqualSubmissionsWithinDay ==
    \A s \in submissions : \A t \in submissions :
        (s.id # t.id /\ s.user = t.user /\ s.at - t.at < Day /\ t.at - s.at < Day) =>
            ~(EqIgnoreCase(s.name, t.name) /\ EqIgnoreCase(s.brand, t.brand))

\* C23: every stored submission was inserted by a request that had called
\* the duplicate detector (findSimilarProducts on the candidate's name and
\* brand) before its insert.
C23_DetectorCalledBeforeInsert ==
    \A s \in submissions :
        LET calls == reqs[s.id].calls
        IN  \E i, j \in DOMAIN calls :
               i < j /\ calls[i] = "findSimilarProducts" /\ calls[j] = "insert"

\* C26: a request is rejected by the gate (status 409) only if the same
\* user has a submission of the preceding 24 hours whose name and brand
\* equal the candidate's ignoring case.
C26_RejectedOnlyForEqualSubmission ==
    [][\A i \in DOMAIN reqs :
          (reqs[i].pc = "check" /\ reqs'[i].status = 409) =>
              \E s \in submissions :
                 /\ s.user = reqs[i].user /\ s.at > now - Day
                 /\ EqIgnoreCase(s.name, reqs[i].name)
                 /\ EqIgnoreCase(s.brand, reqs[i].brand)]_vars

\* C29: once no request is between its insert and its counter update,
\* total_submissions of every user equals the number of stored submissions
\* of that user, and no request that answered 500 has left a submission.
C29_CounterMatchesSubmissions ==
    /\ (\A i \in DOMAIN reqs : reqs[i].pc # "count") =>
          \A u \in SubmitUsers :
             totalSubs[u] = Cardinality({s \in submissions : s.user = u})
    /\ \A s \in submissions : reqs[s.id].status # 500

(***************************************************************************)
(* Tier recomputation: the SQL function update_user_tier (with             *)
(* calculate_user_quality_score) and UserRepository.updateUserTier.        *)
(* Scores are kept in hundredths (DECIMAL(3,2)): 8.50 is 850.  users is    *)
(* the row of one user together with the number of its npd_submissions     *)
(* rows per status.  lastTier remembers the last recomputation: which      *)
(* implementation ran, the tier stored before it, how it ended, and        *)
(* whether anything it reads has changed since (fresh).                    *)
(***************************************************************************)
DecimalMax == 999

Tiers == {"bronze", "silver", "gold", "platinum", "diamond"}

TierRank(t) ==
    CASE t = "bronze" -> 1 [] t = "silver" -> 2 [] t = "gold" -> 3
      [] t = "platinum" -> 4 [] t = "diamond" -> 5

TierConfig(t, s, q, r, m) ==
    [tier |-> t, minSubs |-> s, minQ |-> q, minRate |-> r, mult |-> m]

\* The rows written by the seed script
SeedTierConfigs ==
    { TierConfig("bronze", 0, 0, 0, 100),
      TierConfig("silver", 10, 700, 80, 110),
      TierConfig("gold", 25, 800, 85, 120),
      TierConfig("platinum", 50, 850, 90, 130),
      TierConfig("diamond", 100, 900, 95, 150) }

\* The rows the tier set-up script configures
SetupTierConfigs ==
    { TierConfig("bronze", 0, 0, 0, 100),
      TierConfig("silver", 10, 600, 7000, 120),
      TierConfig("gold", 50, 750, 8000, 150),
      TierConfig("platinum", 200, 850, 8500, 200),
      TierConfig("diamond", 500, 900, 9000, 250) }

\* ROUND(approved / COUNT(*) * 10, 2) over the approved and rejected rows,
\* 0 when there is none; numeric ROUND rounds half away from zero
QualityOf(approved, rejected) ==
    IF approved + rejected = 0 THEN 0
    ELSE (2 * 1000 * approved + (approved + rejected)) \div (2 * (approved + rejected))

\* approval_rate >= min_approval_rate, approval_rate being
\* approved_submissions / total_submissions * 100, or 0 when total is 0
RateMet(approved, total, minRate) ==
    IF total = 0 THEN 0 >= minRate
    ELSE approved * 100 * 100 >= minRate * total

MetConfigs(cfg, total, quality, approved) ==
    {c \in cfg : /\ total >= c.minSubs
                 /\ quality >= c.minQ
                 /\ RateMet(approved, total, c.minRate)}

\* ORDER BY min_submissions DESC, min_quality_score DESC LIMIT 1, then
\* COALESCE(new_tier, 'bronze'); rows that tie may come in either order
TierSQL(cfg, total, quality, approved) ==
    LET met == MetConfigs(cfg, total, quality, approved)
        first == {c \in met : \A d \in met :
                     \/ d.minSubs < c.minSubs
                     \/ (d.minSubs = c.minSubs /\ d.minQ <= c.minQ)}
    IN  IF met = {} THEN {"bronze"} ELSE {c.tier : c \in first}

\* The CASE of updateUserTier
TierTS(total, quality) ==
    IF total >= 100 /\ quality >= 900 THEN "diamond"
    ELSE IF total >= 50 /\ quality >= 850 THEN "platinum"
    ELSE IF total >= 25 /\ quality >= 800 THEN "gold"
    ELSE IF total >= 10 /\ quality >= 700 THEN "silver"
    ELSE "bronze"

\* A recomputation that keeps the stored tier when it is the higher one.
NeverDemoteTS(row) ==
    IF TierRank(row.tier) > TierRank(TierTS(row.total, row.quality))
    THEN row.tier ELSE TierTS(row.total, row.quality)

\* SET user_tier = CASE ... END, evaluated on the stored row
NewTierTS(row) == TierTS(row.total, row.quality)

\* The tiers update_user_tier may select for the row
NewTierSQL(row, cfg) ==
    TierSQL(cfg, row.total, QualityOf(row.nApproved, row.nRejected), row.approved)

TotalChoices == {0, 5, 10, 25, 50, 100}
ApprovedChoices(total) == {0, (4 * total) \div 5, total}
QualityChoices == {0, 700, 800, 850, 900, DecimalMax}
\* <<approved, rejected, any other status>>
StatusCounts ==
    { <<0, 0, 0>>, <<0, 0, 1>>, <<1, 0, 0>>, <<1, 15, 0>>, <<7, 3, 0>>, <<7, 3, 1>>,
      <<8, 2, 0>>, <<17, 3, 0>>, <<9, 1, 0>> }

NewUser ==
    [total |-> 0, approved |-> 0, quality |-> 0, tier |-> "bronze",
     nApproved |-> 0, nRejected |-> 0, nOther |-> 0]

NoRecompute == [impl |-> "none", fresh |-> FALSE, from |-> "bronze", status |-> "ok"]

\* UserRepository.update(id, {total_submissions, approved_submissions}), within
\* CHECK (approved_submissions <= total_submissions)
UpdateUserCounters ==
    /\ \E total \in TotalChoices : \E approved \in ApprovedChoices(total) :
         users' = [users EXCEPT !.total = total, !.approved = approved]
    /\ lastTier' = [lastTier EXCEPT !.fresh = FALSE]
    /\ UNCHANGED tierConfigs
    /\ UNCHANGED <<whereVars, findVars, bulkVars, submitVars, rewardVars>>
    /\ UNCHANGED <<simVars, crudVars, searchVars, autoVars>>
    /\ UNCHANGED lateVars

\* UserRepository.update(id, {quality_score})
UpdateUserQuality ==
    /\ \E q \in QualityChoices : users' = [users EXCEPT !.quality = q]
    /\ lastTier' = [lastTier EXCEPT !.fresh = FALSE]
    /\ UNCHANGED tierConfigs
    /\ UNCHANGED <<whereVars, findVars, bulkVars, submitVars, rewardVars>>
    /\ UNCHANGED <<simVars, crudVars, searchVars, autoVars>>
    /\ UNCHANGED lateVars

\* Submissions of the user are added and reviewed: npd_submissions.status
ReviewSubmissions ==
    /\ \E n \in StatusCounts :
         users' = [users EXCEPT !.nApproved = n[1], !.nRejected = n[2], !.nOther = n[3]]
    /\ lastTier' = [lastTier EXCEPT !.fresh = FALSE]
    /\ UNCHANGED tierConfigs
    /\ UNCHANGED <<whereVars, findVars, bulkVars, submitVars, rewardVars>>
    /\ UNCHANGED <<simVars, crudVars, searchVars, autoVars>>
    /\ UNCHANGED lateVars

\* INSERT INTO user_tier_configs ... ON CONFLICT (tier) DO UPDATE
SeedTiers ==
    /\ tierConfigs' = {c \in tierConfigs : \A d \in SeedTierConfigs : d.tier # c.tier}
                        \cup SeedTierConfigs
    /\ lastTier' = [lastTier EXCEPT !.fresh = FALSE]
    /\ UNCHANGED users
    /\ UNCHANGED <<whereVars, findVars, bulkVars, submitVars, rewardVars>>
    /\ UNCHANGED <<simVars, crudVars, searchVars, autoVars>>
    /\ UNCHANGED lateVars

\* UserRepository.updateUserTier(userId)
UpdateUserTierTS ==
    /\ users' = [users EXCEPT !.tier = NewTierTS(users)]
    /\ lastTier' = [impl |-> "ts", fresh |-> TRUE, from |-> users.tier, status |-> "ok"]
    /\ UNCHANGED tierConfigs
    /\ UNCHANGED <<whereVars, findVars, bulkVars, submitVars, rewardVars>>
    /\ UNCHANGED <<simVars, crudVars, searchVars, autoVars>>
    /\ UNCHANGED lateVars

\* SELECT update_user_tier(user_uuid).  The score is read into a DECIMAL(3,2)
\* variable: a value above 9.99 raises numeric field overflow and the
\* statement is rolled back.
UpdateUserTierSQL ==
    /\ LET q == QualityOf(users.nApproved, users.nRejected)
       IN  IF q > DecimalMax
           THEN /\ UNCHANGED users
                /\ lastTier' = [impl |-> "sql", fresh |-> TRUE, from |-> users.tier,
                                status |-> "error"]
           ELSE /\ \E t \in NewTierSQL(users, tierConfigs) :
                     users' = [users EXCEPT !.tier = t, !.quality = q]
                /\ lastTier' = [impl |-> "sql", fresh |-> TRUE, from |-> users.tier,
                                status |-> "ok"]
    /\ UNCHANGED tierConfigs
    /\ UNCHANGED <<whereVars, findVars, bulkVars, submitVars, rewardVars>>
    /\ UNCHANGED <<simVars, crudVars, searchVars, autoVars>>
    /\ UNCHANGED lateVars

TierInit ==
    /\ users = NewUser /\ tierConfigs = {} /\ lastTier = NoRecompute

TierNext ==
    UpdateUserCounters \/ UpdateUserQuality \/ ReviewSubmissions \/ SeedTiers
        \/ UpdateUserTierTS \/ UpdateUserTierSQL
InitTier == TierInit /\ WhereIdle /\ FindIdle /\ BulkIdle /\ SubmitIdle /\ RewardIdle /\ LaterIdle /\ LateIdle
SpecTier == InitTier /\ [][TierNext]_vars

Recomputed == lastTier # <<>> /\ lastTier.fresh

\* The highest tier of the table whose three minimums are met
HighestMet(cfg, total, quality, approved) ==
    LET met == MetConfigs(cfg, total, quality, approved)
    IN  IF met = {} THEN "bronze"
        ELSE CHOOSE t \in {c.tier : c \in met} :
                 \A c \in met : TierRank(c.tier) <= TierRank(t)

\* C7: after a recomputation by either implementation, the stored tier is
\* the highest tier of the threshold table whose minimum submissions,
\* minimum quality score and minimum approval rate are all met by the
\* user's statistics, and bronze when no tier's minimums are met.
C7_TierIsHighestMet ==
    (Recomputed /\ lastTier.status = "ok") =>
        users.tier = HighestMet(tierConfigs, users.total, users.quality, users.approved)

\* C9: after the SQL recomputation the stored quality score is
\* round(approved / (approved + rejected) * 10, 2), 0 when nothing is
\* decided, within [0, 10], and it was computed and stored without error.
C9_QualityScoreStored ==
    (Recomputed /\ lastTier.impl = "sql") =>
        /\ lastTier.status = "ok"
        /\ users.quality = QualityOf(users.nApproved, users.nRejected)
        /\ users.quality \in 0..1000

\* The minimum quality score of a tier, as the implementation reads it
MinQuality(impl, t, cfg) ==
    IF impl = "ts"
    THEN CASE t = "diamond" -> 900 [] t = "platinum" -> 850 [] t = "gold" -> 800
           [] t = "silver" -> 700 [] t = "bronze" -> 0
    ELSE IF \E c \in cfg : c.tier = t
         THEN (CHOOSE c \in cfg : c.tier = t).minQ
         ELSE 0

C10_IndependentOfStoredTier ==
    users # <<>> =>
        \A t \in Tiers :
            /\ NewTierTS([users EXCEPT !.tier = t]) = NewTierTS(users)
            /\ NewTierSQL([users EXCEPT !.tier = t], tierConfigs)
                   = NewTierSQL(users, tierConfigs)

C10_Regresses ==
    (Recomputed /\ lastTier.status = "ok"
        /\ users.quality < MinQuality(lastTier.impl, lastTier.from, tierConfigs)) =>
            TierRank(users.tier) < TierRank(lastTier.from)

C10_SecondChangesNothing ==
    (Recomputed /\ lastTier'.fresh /\ lastTier'.impl = lastTier.impl) => users' = users

BaseReward == 300

\* base_reward as configured: the column default, or another amount
BaseChoices == {BaseReward, 500}

\* Math.floor(aiConfidence * 50) in IEEE doubles, confidence in hundredths:
\* 0.58 * 50 is 28.999999999999996
FloorConfidenceBonus(conf) ==
    IF conf \in {58} THEN (conf * 50) \div 100 - 1 ELSE (conf * 50) \div 100

\* tierMultipliers[userTier] || 1.0, in hundredths
TierMultipliers(tier) ==
    CASE tier = "bronze" -> 100 [] tier = "silver" -> 110 [] tier = "gold" -> 120
      [] tier = "platinum" -> 130 [] OTHER -> 100

calculateReward(submission, userTier) ==
    LET reward == BaseReward + FloorConfidenceBonus(submission.conf)
                    + (IF submission.regional THEN 50 ELSE 0)
    IN  (reward * TierMultipliers(userTier)) \div 100

RewardInit ==
    /\ rewardIn \in [base : BaseChoices, conf : 0..100, regional : BOOLEAN,
                     tier : Tiers]
    /\ rewardOut = <<>>
    /\ tierConfigs \in {SeedTierConfigs, SetupTierConfigs}

ComputeReward ==
    /\ rewardOut = <<>>
    /\ rewardOut' = <<calculateReward(rewardIn, rewardIn.tier)>>
    /\ UNCHANGED <<rewardIn, users, tierConfigs, lastTier>>
    /\ UNCHANGED <<whereVars, findVars, bulkVars, submitVars>>
    /\ UNCHANGED <<simVars, crudVars, searchVars, autoVars>>
    /\ UNCHANGED lateVars

RewardNext == ComputeReward
InitReward ==
    /\ RewardInit /\ users = <<>> /\ lastTier = <<>>
    /\ WhereIdle /\ FindIdle /\ BulkIdle /\ SubmitIdle /\ LaterIdle /\ LateIdle
SpecReward == InitReward /\ [][RewardNext]_vars

ConfiguredMultiplier(cfg, tier) == (CHOOSE c \in cfg : c.tier = tier).mult

\* C8: the reward is floor(floor(base + floor(confidence * 50) + (50 if
\* regional-exclusive, else 0)) * multiplier), the multiplier being the one
\* the configured table gives the user's tier, for all five tiers.
C8_RewardFollowsConfiguredTable ==
    rewardOut # <<>> =>
        rewardOut[1] =
            ((rewardIn.base + (rewardIn.conf * 50) \div 100
                + (IF rewardIn.regional THEN 50 ELSE 0))
             * ConfiguredMultiplier(tierConfigs, rewardIn.tier)) \div 100

(***************************************************************************)
(* ProductRepository.findSimilarProducts.  similarity() is the trigram     *)
(* similarity of pg_trgm: both strings are lower-cased and cut into words  *)
(* of letters and digits, each word is padded with two blanks in front and *)
(* one behind, and the result is the number of shared trigrams over the    *)
(* number of trigrams of either; it is 0 when a string has no trigram.     *)
(* A similarity or a score is a fraction [n, d].                           *)
(***************************************************************************)
SimilarLimit == 10
DefaultThreshold == 70
MaxCatalog == 11
MaxExtras == 2

EarlyIdle == WhereIdle /\ FindIdle /\ BulkIdle /\ SubmitIdle /\ TierIdle /\ RewardIdle

IsAlnum(c) == c \in {"a", "b", "A", "B"}

\* The words of a string, lower-cased
RECURSIVE WordsOf(_, _, _)
WordsOf(str, word, acc) ==
    IF Len(str) = 0 THEN (IF Len(word) = 0 THEN acc ELSE acc \cup {word})
    ELSE IF IsAlnum(Head(str)) THEN WordsOf(Tail(str), Append(word, Lower(Head(str))), acc)
    ELSE WordsOf(Tail(str), <<>>, IF Len(word) = 0 THEN acc ELSE acc \cup {word})

WordTrigrams(word) ==
    LET padded == <<" ", " ">> \o word \o <<" ">>
    IN  {SubSeq(padded, i, i + 2) : i \in 1..(Len(padded) - 2)}

Trigrams(str) == UNION {WordTrigrams(w) : w \in WordsOf(str, <<>>, {})}

\* similarity(a, b)
Similarity(a, b) ==
    LET ta == Trigrams(a)
        tb == Trigrams(b)
    IN  IF ta = {} \/ tb = {} THEN [n |-> 0, d |-> 1]
        ELSE [n |-> Cardinality(ta \cap tb), d |-> Cardinality(ta \cup tb)]

FracAdd(x, y) == [n |-> x.n * y.d + y.n * x.d, d |-> x.d * y.d]
FracLess(x, y) == x.n * y.d < y.n * x.d
\* x > t / 100
FracAbove(x, t) == x.n * 100 > t * x.d
FracAtLeast(x, t) == x.n * 100 >= t * x.d

\* threshold: number = 0.7
ThresholdOf(args) == IF args.threshold.t = "undefined" THEN DefaultThreshold ELSE args.threshold.v

\* A score that looks at the name only.
SimilarScoreNameOnly(row, args) == Similarity(row.name, args.name)

\* similarity(name, $1) + similarity(brand, $2) as sim_score
SimilarScore(row, args) ==
    FracAdd(Similarity(row.name, args.name), Similarity(row.brand, args.brand))

\* A WHERE that also keeps the rows whose score equals the threshold.
SimilarWhereNonStrict(row, args) ==
    /\ FracAtLeast(SimilarScore(row, args), ThresholdOf(args))
    /\ row.status = "verified"

\* WHERE (similarity(name, $1) + similarity(brand, $2)) > $3
\*   AND verification_status = 'verified'
SimilarWhere(row, args) ==
    /\ FracAbove(SimilarScore(row, args), ThresholdOf(args))
    /\ row.status = "verified"

Product(n, b, st) == [name |-> n, brand |-> b, status |-> st]

\* The kinds of catalog row; a catalog holds any number of rows of each kind
CatalogKinds ==
    { Product(<<"a", "b">>, <<"a">>, "verified"),
      Product(<<"A", "B">>, <<"a">>, "verified"),
      Product(<<"a", "b", "a">>, <<"a">>, "verified"),
      Product(<<"a", "b">>, <<"b">>, "verified"),
      Product(<<"a", "b">>, <<"a">>, "pending"),
      Product(<<"-">>, <<"a">>, "verified") }

Candidates ==
    { [name |-> <<"a", "b">>, brand |-> <<"a">>],
      [name |-> <<"-">>, brand |-> <<"a">>],
      [name |-> <<"a", "b", "a">>, brand |-> <<"b">>] }

Thresholds == {Undefined, Num(100)}

\* n rows of one kind and one more row of each kind of extras
CatalogOf(kind, n, extras) ==
    [k \in CatalogKinds |-> (IF k = kind THEN n ELSE 0) + (IF k \in extras THEN 1 ELSE 0)]

Catalogs ==
    {CatalogOf(kind, n, extras) :
        kind \in CatalogKinds, n \in 0..(MaxCatalog - MaxExtras),
        extras \in {e \in SUBSET CatalogKinds : Cardinality(e) <= MaxExtras}}

RECURSIVE BagSize(_, _)
BagSize(bag, kinds) ==
    IF kinds = {} THEN 0
    ELSE LET k == CHOOSE x \in kinds : TRUE IN bag[k] + BagSize(bag, kinds \ {k})

\* result = await db.query(query, [name, brand, threshold]): the store
\* evaluates the WHERE over the catalog
SimilarCall ==
    /\ simPc = "idle"
    /\ simOut' = [rest |-> [k \in CatalogKinds |->
                              IF SimilarWhere(k, simArgs) THEN simCatalog[k] ELSE 0],
                  rows |-> <<>>, error |-> "none"]
    /\ simPc' = "fetch"
    /\ UNCHANGED <<simCatalog, simArgs>>
    /\ UNCHANGED <<whereVars, findVars, bulkVars, submitVars, tierVars, rewardVars>>
    /\ UNCHANGED <<crudVars, searchVars, autoVars>>
    /\ UNCHANGED lateVars

\* ORDER BY sim_score DESC LIMIT 10: the next row is one of the highest
\* score among those left; rows that tie come in any order
SimilarFetch ==
    /\ simPc = "fetch" /\ Len(simOut.rows) < SimilarLimit
    /\ \E k \in CatalogKinds :
         /\ simOut.rest[k] > 0
         /\ \A j \in CatalogKinds :
              simOut.rest[j] > 0 =>
                  ~FracLess(SimilarScore(k, simArgs), SimilarScore(j, simArgs))
         /\ simOut' = [simOut EXCEPT !.rest[k] = @ - 1,
                         !.rows = Append(@, [row |-> k, score |-> SimilarScore(k, simArgs)])]
    /\ UNCHANGED <<simCatalog, simArgs, simPc>>
    /\ UNCHANGED <<whereVars, findVars, bulkVars, submitVars, tierVars, rewardVars>>
    /\ UNCHANGED <<crudVars, searchVars, autoVars>>
    /\ UNCHANGED lateVars

\* return result.rows
SimilarReturn ==
    /\ simPc = "fetch"
    /\ \/ Len(simOut.rows) = SimilarLimit
       \/ \A k \in CatalogKinds : simOut.rest[k] = 0
    /\ simPc' = "returned"
    /\ UNCHANGED <<simCatalog, simArgs, simOut>>
    /\ UNCHANGED <<whereVars, findVars, bulkVars, submitVars, tierVars, rewardVars>>
    /\ UNCHANGED <<crudVars, searchVars, autoVars>>
    /\ UNCHANGED lateVars

\* catch (error) { throw new DatabaseError('Failed to find similar products') }
SimilarThrow ==
    /\ simPc = "idle"
    /\ simOut' = [rest |-> [k \in CatalogKinds |-> 0], rows |-> <<>>,
                  error |-> "DatabaseError"]
    /\ simPc' = "thrown"
    /\ UNCHANGED <<simCatalog, simArgs>>
    /\ UNCHANGED <<whereVars, findVars, bulkVars, submitVars, tierVars, rewardVars>>
    /\ UNCHANGED <<crudVars, searchVars, autoVars>>
    /\ UNCHANGED lateVars

SimInit ==
    /\ simCatalog \in Catalogs
    /\ simArgs \in [name : {c.name : c \in Candidates}, brand : {c.brand : c \in Candidates},
                    threshold : Thresholds]
    /\ [name |-> simArgs.name, brand |-> simArgs.brand] \in Candidates
    /\ simPc = "idle" /\ simOut = <<>>

SimNext == SimilarCall \/ SimilarFetch \/ SimilarReturn \/ SimilarThrow
InitSim == SimInit /\ EarlyIdle /\ CrudIdle /\ SearchIdle /\ AutoIdle /\ LateIdle
SpecSim == InitSim /\ [][SimNext]_vars

CatalogSize == BagSize(simCatalog, CatalogKinds)
ReturnedCount(k) == Cardinality({i \in DOMAIN simOut.rows : simOut.rows[i].row = k})
Smaller(a, b) == IF a < b THEN a ELSE b

\* The rows of the catalog with a score above the threshold, of any status
AboveThreshold ==
    [k \in CatalogKinds |->
        IF FracAbove(SimilarScore(k, simArgs), ThresholdOf(simArgs)) THEN simCatalog[k] ELSE 0]

\* ... and those of them that are verified
VerifiedAboveThreshold ==
    [k \in CatalogKinds |-> IF k.status = "verified" THEN AboveThreshold[k] ELSE 0]

\* The result is the rows of wanted, by score from the highest, cut after
\* SimilarLimit rows: a wanted row is left out only when SimilarLimit rows of
\* no lower score are returned.
ReturnsTopOf(wanted) ==
    LET rows == simOut.rows
    IN  /\ \A k \in CatalogKinds : ReturnedCount(k) <= wanted[k]
        /\ Len(rows) = Smaller(BagSize(wanted, CatalogKinds), SimilarLimit)
        /\ \A i \in DOMAIN rows :
              /\ rows[i].score.n = SimilarScore(rows[i].row, simArgs).n
              /\ rows[i].score.d = SimilarScore(rows[i].row, simArgs).d
        /\ \A i, j \in DOMAIN rows : i < j => ~FracLess(rows[i].score, rows[j].score)
        /\ \A i \in DOMAIN rows : \A k \in CatalogKinds :
              ReturnedCount(k) < wanted[k] =>
                  ~FracLess(rows[i].score, SimilarScore(k, simArgs))

\* C11 as claimed: findSimilarProducts returns exactly the catalog rows with
\* a score strictly above the threshold, highest score first, cut to 10.
C11_ReturnsAllAboveThreshold == simPc = "returned" => ReturnsTopOf(AboveThreshold)

\* C11: findSimilarProducts returns exactly the verified catalog rows with a
\* score strictly above the threshold (0.7 by default), in non-increasing
\* score order, cut to the 10 highest; a verified row above the threshold is
\* left out only because of the cut.
C11_ReturnsVerifiedAboveThreshold ==
    simPc = "returned" => ReturnsTopOf(VerifiedAboveThreshold)

\* Eleven verified rows are above the threshold, the ten returned are not all
\* of one score, and the catalog holds no other row
C11_Witness ==
    /\ simPc = "returned" /\ Len(simOut.rows) = SimilarLimit
    /\ BagSize(VerifiedAboveThreshold, CatalogKinds) = SimilarLimit + 1
    /\ FracLess(simOut.rows[SimilarLimit].score, simOut.rows[1].score)

\* The catalog is one row with exactly the candidate's name and brand
OnlyRowIsCandidate(k) ==
    /\ CatalogSize = 1 /\ simCatalog[k] = 1
    /\ k.name = simArgs.name /\ k.brand = simArgs.brand

FirstIsWithScoreTwo(k) ==
    /\ Len(simOut.rows) >= 1
    /\ simOut.rows[1].row = k
    /\ simOut.rows[1].score.n = 2 * simOut.rows[1].score.d

\* C12 as claimed: with a catalog whose only row has the candidate's name and
\* brand, that row is the first result, with score 2.0, whatever its status.
C12_ExactRowFirstAnyStatus ==
    \A k \in CatalogKinds :
        (simPc = "returned" /\ OnlyRowIsCandidate(k)) => FirstIsWithScoreTwo(k)

\* C12: with a catalog whose only row is verified and has the candidate's name
\* and brand, both holding at least one letter or digit, and a threshold
\* below 2, that row is the first result, with score 2.0.
C12_ExactVerifiedRowFirst ==
    \A k \in CatalogKinds :
        (/\ simPc = "returned" /\ OnlyRowIsCandidate(k)
         /\ k.status = "verified" /\ ThresholdOf(simArgs) < 200
         /\ Trigrams(k.name) # {} /\ Trigrams(k.brand) # {}) => FirstIsWithScoreTwo(k)

C12_Witness ==
    /\ simPc = "returned" /\ Len(simOut.rows) = 1
    /\ \E k \in CatalogKinds :
         /\ OnlyRowIsCandidate(k) /\ k.status = "verified" /\ FirstIsWithScoreTwo(k)

(***************************************************************************)
(* BaseRepository.create, update and delete, each with its one statement.  *)
(* The table has the columns id (primary key), name (UNIQUE), qty and      *)
(* updated_at, and the BEFORE UPDATE trigger update_updated_at_column.     *)
(* crudCall is the last call: its arguments, how it ended (status and the  *)
(* provider code), the rows it returned, the number of statements it sent  *)
(* and the table before it.                                                *)
(***************************************************************************)
MaxCalls == 2
MaxCrudRows == 2

CrudIds == 1..(MaxCrudRows + 1)
CrudNames == {"a", "b"}
CrudQtys == {1, 2}

Row(id, name, qty, at) == [id |-> id, name |-> name, qty |-> qty, updated_at |-> at]

\* Partial<T>: values for some of the fields, or for none
Patches ==
    {<<>>} \cup {[name |-> n] : n \in CrudNames} \cup {[qty |-> q] : q \in CrudQtys}
        \cup {[name |-> n, qty |-> q] : n \in CrudNames, q \in CrudQtys}

\* PRIMARY KEY (id), UNIQUE (name)
UniqueViolation(tbl, row) ==
    \E r \in tbl : r.id = row.id \/ r.name = row.name

\* SET field = $n for the fields of the patch
ApplyPatch(row, patch) ==
    [f \in DOMAIN row |-> IF f \in DOMAIN patch THEN patch[f] ELSE row[f]]

\* NEW.updated_at = NOW()
UpdatedAtTrigger(row, at) == [row EXCEPT !.updated_at = at]

\* A guard that lets every patch through.
NoPatchIsEmpty(patch) == FALSE

\* if (fields.length === 0)
EmptyPatch(patch) == DOMAIN patch = {}

\* A catch that wraps whatever was thrown.
WrapEveryError(error) == "DatabaseError"

\* catch (error) { if (error instanceof NotFoundError) throw error; throw new DatabaseError }
UpdateCatch(error) == IF error = "NotFoundError" THEN error ELSE "DatabaseError"

\* UPDATE t SET ... WHERE id = $1 RETURNING *, as the store answers it:
\* an empty SET is a syntax error
UpdateStatement(tbl, id, patch, at) ==
    IF DOMAIN patch = {} THEN [code |-> "42601", rows |-> {}, table |-> tbl]
    ELSE LET hit == {r \in tbl : r.id = id}
             new == {UpdatedAtTrigger(ApplyPatch(r, patch), at) : r \in hit}
         IN  IF \E n \in new : UniqueViolation(tbl \ hit, n)
             THEN [code |-> "23505", rows |-> {}, table |-> tbl]
             ELSE [code |-> "none", rows |-> new, table |-> (tbl \ hit) \cup new]

\* INSERT INTO t (...) VALUES (...) RETURNING *
InsertStatement(tbl, row) ==
    IF UniqueViolation(tbl, row) THEN [code |-> "23505", rows |-> {}, table |-> tbl]
    ELSE [code |-> "none", rows |-> {row}, table |-> tbl \cup {row}]

\* The connection is lost before the statement runs
ConnectionFailure(tbl) == [code |-> "08006", rows |-> {}, table |-> tbl]

Outcome(op, id, patch, status, code, rows, ops, before, clock) ==
    [op |-> op, id |-> id, patch |-> patch, status |-> status, code |-> code,
     rows |-> rows, ops |-> ops, before |-> before, clock |-> clock]

NoCall == Outcome("none", 0, <<>>, "none", "none", {}, 0, {}, 0)

\* BaseRepository.update(id, data)
CallUpdate ==
    /\ crudCall.clock < MaxCalls
    /\ \E id \in CrudIds, patch \in Patches :
         LET at == crudCall.clock + 1
         IN  IF EmptyPatch(patch)
             THEN /\ crudCall' = Outcome("update", id, patch, "ValidationError", "none", {},
                                         0, crudTable, at)
                  /\ UNCHANGED crudTable
             ELSE \E st \in {UpdateStatement(crudTable, id, patch, at),
                             ConnectionFailure(crudTable)} :
                    /\ crudTable' = st.table
                    /\ crudCall' =
                         IF st.code # "none"
                         THEN Outcome("update", id, patch, UpdateCatch("DatabaseError"),
                                      st.code, {}, 1, crudTable, at)
                         ELSE IF st.rows = {}
                         THEN Outcome("update", id, patch, UpdateCatch("NotFoundError"),
                                      "none", {}, 1, crudTable, at)
                         ELSE Outcome("update", id, patch, "ok", "none", st.rows, 1,
                                      crudTable, at)
    /\ UNCHANGED <<whereVars, findVars, bulkVars, submitVars, tierVars, rewardVars>>
    /\ UNCHANGED <<simVars, searchVars, autoVars>>
    /\ UNCHANGED lateVars

\* BaseRepository.create(data); the id comes from the column default
CallCreate ==
    /\ crudCall.clock < MaxCalls
    /\ \E name \in CrudNames, qty \in CrudQtys :
         LET at   == crudCall.clock + 1
             id   == CHOOSE i \in CrudIds : \A r \in crudTable : r.id # i
             data == [name |-> name, qty |-> qty]
         IN  \E st \in {InsertStatement(crudTable, Row(id, name, qty, at)),
                        ConnectionFailure(crudTable)} :
                /\ crudTable' = st.table
                /\ crudCall' =
                     IF st.code # "none"
                     THEN Outcome("create", id, data, "DatabaseError", st.code, {}, 1,
                                  crudTable, at)
                     ELSE Outcome("create", id, data, "ok", "none", st.rows, 1,
                                  crudTable, at)
    /\ UNCHANGED <<whereVars, findVars, bulkVars, submitVars, tierVars, rewardVars>>
    /\ UNCHANGED <<simVars, searchVars, autoVars>>
    /\ UNCHANGED lateVars

\* A delete that reports success whatever the store counted.
DeleteResultAlwaysTrue(rowCount) == "true"

\* return (result.rowCount ?? 0) > 0
DeleteResult(rowCount) == IF rowCount > 0 THEN "true" ELSE "false"

\* BaseRepository.delete(id): DELETE FROM t WHERE id = $1
CallDelete ==
    /\ crudCall.clock < MaxCalls
    /\ \E id \in CrudIds :
         LET at  == crudCall.clock + 1
             hit == {r \in crudTable : r.id = id}
         IN  \/ /\ crudTable' = crudTable \ hit
                /\ crudCall' = Outcome("delete", id, <<>>, DeleteResult(Cardinality(hit)),
                                       "none", hit, 1, crudTable, at)
             \/ /\ UNCHANGED crudTable
                /\ crudCall' = Outcome("delete", id, <<>>, "DatabaseError", "08006", {}, 1,
                                       crudTable, at)
    /\ UNCHANGED <<whereVars, findVars, bulkVars, submitVars, tierVars, rewardVars>>
    /\ UNCHANGED <<simVars, searchVars, autoVars>>
    /\ UNCHANGED lateVars

\* Tables of up to MaxCrudRows rows that meet the constraints
CrudTables ==
    {t \in SUBSET {Row(id, name, qty, 0) : id \in 1..MaxCrudRows, name \in CrudNames,
                                           qty \in CrudQtys} :
        \A r1, r2 \in t : (r1.id = r2.id \/ r1.name = r2.name) => r1 = r2}

CrudInit ==
    /\ crudTable \in CrudTables
    /\ crudCall = NoCall

CrudNext == CallUpdate \/ CallCreate \/ CallDelete
InitCrud == CrudInit /\ EarlyIdle /\ SimIdle /\ SearchIdle /\ AutoIdle /\ LateIdle
SpecCrud == InitCrud /\ [][CrudNext]_vars

\* C13: update with an empty patch ends in ValidationError for every id, sends
\* no statement to the store, and leaves the table as it was.
C13_EmptyPatchIsRejected ==
    (crudCall.op = "update" /\ DOMAIN crudCall.patch = {}) =>
        /\ crudCall.status = "ValidationError"
        /\ crudCall.ops = 0
        /\ crudTable = crudCall.before

\* An empty patch was sent for the id of a stored row
C13_Witness ==
    /\ crudCall.op = "update" /\ DOMAIN crudCall.patch = {}
    /\ crudCall.status = "ValidationError"
    /\ \E r \in crudTable : r.id = crudCall.id

UpdateRan ==
    /\ crudCall.op = "update" /\ DOMAIN crudCall.patch # {}
    /\ crudCall.code = "none"

\* The stored row the update was aimed at, before the call
Target == {r \in crudCall.before : r.id = crudCall.id}

UnknownIdIsNotFound ==
    (UpdateRan /\ Target = {}) =>
        crudCall.status = "NotFoundError" /\ crudTable = crudCall.before

ReturnsPatchedRow(untouched) ==
    (UpdateRan /\ Target # {}) =>
        /\ crudCall.status = "ok"
        /\ \E old \in Target : \E new \in crudCall.rows :
             /\ crudCall.rows = {new}
             /\ new \in crudTable
             /\ \A f \in DOMAIN crudCall.patch : new[f] = crudCall.patch[f]
             /\ \A f \in untouched \ DOMAIN crudCall.patch : new[f] = old[f]

C15_UniqueViolationIsDuplicateError ==
    crudCall.op = "create" =>
        /\ crudCall.code = "23505" =>
              crudCall.status = "DuplicateError" /\ crudTable = crudCall.before
        /\ crudCall.code = "none" =>
              /\ crudCall.status = "ok"
              /\ crudTable = crudCall.before \cup crudCall.rows
              /\ Cardinality(crudCall.rows) = 1
              /\ crudCall.rows \cap crudCall.before = {}

DeleteAnswered == crudCall.op = "delete" /\ crudCall.status \in {"true", "false"}

\* C21: delete(id) returns true iff a row with that id existed, and removes
\* that row and no other; a delete of the same id that follows a delete
\* returns false and changes nothing.
C21_DeleteReportsRemoval ==
    /\ [](DeleteAnswered =>
            /\ (crudCall.status = "true") <=> (\E r \in crudCall.before : r.id = crudCall.id)
            /\ crudTable = {r \in crudCall.before : r.id # crudCall.id})
    /\ [][(/\ DeleteAnswered
            /\ crudCall'.op = "delete" /\ crudCall'.id = crudCall.id
            /\ crudCall'.status \in {"true", "false"})
              => (crudCall'.status = "false" /\ crudTable' = crudTable)]_vars

C21_Witness ==
    /\ DeleteAnswered /\ crudCall.status = "false" /\ crudCall.clock = MaxCalls
    /\ Cardinality(crudTable) < MaxCrudRows /\ crudTable # {}
    /\ \A r \in crudTable : r.updated_at = 0


(***************************************************************************)
(* ProductRepository.search against the store: the main query and the      *)
(* count query are dispatched together (Promise.all) inside one try block. *)
(***************************************************************************)
MaxProducts == 3
SearchDefaultLimit == 20

\* Row i of the products table.  name stands for the indexed text of the
\* row (one word); mrp, ai_confidence_score and created_at are numbers.
ProductRow(i) ==
    [id |-> Num(i),
     name |-> Str(IF i % 2 = 1 THEN <<"a">> ELSE <<"b">>),
     category |-> Str(IF i <= 2 THEN <<"a">> ELSE <<"b">>),
     brand |-> Str(IF i % 2 = 1 THEN <<"b">> ELSE <<"a">>),
     country |-> Str(<<"a">>),
     mrp |-> Num(IF i <= 2 THEN 1 ELSE 2),
     is_regional_exclusive |-> Bool(i % 2 = 0),
     is_npd |-> Bool(i <= 2),
     verification_status |-> Str(IF i = 1 THEN <<"b">> ELSE <<"a">>),
     ai_confidence_score |-> Num(i % 2),
     created_at |-> Num(IF i <= 2 THEN 1 ELSE 2)]
ProductRows == {ProductRow(i) : i \in 1..MaxProducts}

\* const limit = pagination.limit || 20
SearchLimit(pagination) ==
    IF Truthy(pagination.limit) THEN pagination.limit.v ELSE SearchDefaultLimit

\* const offset = pagination.offset || (pagination.page ? (page - 1) * limit : 0)
SearchOffset(pagination) ==
    IF Truthy(pagination.offset) THEN pagination.offset.v
    ELSE IF Truthy(pagination.page) THEN (pagination.page.v - 1) * SearchLimit(pagination)
    ELSE 0

\* orderClause: the only '$' of the text is the $1 of the ranking expression
searchOrder(searchFilters) ==
    IF Truthy(searchFilters.query)
    THEN [keys |-> <<"ts_rank", "ai_confidence_score", "created_at">>, ph |-> {1}]
    ELSE [keys |-> <<"created_at">>, ph |-> {}]

\* mainQuery: LIMIT ${paramIndex} OFFSET ${paramIndex + 1}, bound to
\* [...params, limit, offset]
SearchMainQuery(args) ==
    LET w == searchWhere(args.filters)
    IN  [where |-> w.clause, order |-> searchOrder(args.filters),
         limit |-> <<[kw |-> "LIMIT", arg |-> IntLit(w.paramIndex)],
                     [kw |-> "OFFSET", arg |-> IntLit(w.paramIndex + 1)]>>,
         params |-> w.params \o <<Num(SearchLimit(args.pagination)),
                                  Num(SearchOffset(args.pagination))>>]

\* countQuery: the same WHERE text, bound to params
SearchCountQuery(args) ==
    LET w == searchWhere(args.filters)
    IN  [where |-> w.clause, order |-> [keys |-> <<>>, ph |-> {}], limit |-> <<>>,
         params |-> w.params]

\* Bind: the placeholders of the whole text are exactly $1..$n
SearchBindOk(q) == PlaceholdersUsed(q) \cup q.order.ph = 1..Len(q.params)

\* An integer written into the text is typed integer: it compares with the
\* numeric column only (varchar = integer, boolean = integer, timestamp >=
\* integer and plainto_tsquery(regconfig, integer) do not exist).
SearchCondOk(c) ==
    /\ Len(c.args) > 0
    /\ \A i \in DOMAIN c.args : c.args[i].k = "ph" \/ c.key = "mrp"

SearchStatementOk(q) ==
    /\ SearchBindOk(q)
    /\ \A i \in DOMAIN q.where : SearchCondOk(q.where[i])
    /\ LimitOk(q)

\* to_tsvector(...) @@ plainto_tsquery(...): the one-word text holds the word
TextMatches(row, word) == word.t = "string" /\ row.name = word

SearchRowMatches(row, c, params) ==
    CASE c.op = "@@" -> TextMatches(row, ArgValue(c.args[1], params))
      [] c.op = "IN" -> \E i \in DOMAIN c.args : SqlEq(row[c.key], ArgValue(c.args[i], params))
      [] c.op = "BETWEEN" ->
            LET lo == ArgValue(c.args[1], params)
                hi == ArgValue(c.args[2], params)
            IN  /\ lo.t = "number" /\ hi.t = "number" /\ row[c.key].t = "number"
                /\ lo.v <= row[c.key].v /\ row[c.key].v <= hi.v
      [] OTHER -> SqlEq(row[c.key], ArgValue(c.args[1], params))

SearchMatching(tbl, q) ==
    {r \in tbl : \A i \in DOMAIN q.where : SearchRowMatches(r, q.where[i], q.params)}

\* ts_rank of a one-word text: 1 when it holds the word, 0 otherwise
SearchSortKey(row, key, word) ==
    IF key = "ts_rank" THEN (IF TextMatches(row, word) THEN 1 ELSE 0) ELSE row[key].v

RECURSIVE SearchPrecedes(_, _, _, _, _)
\* r1 may stand before r2 under keys[i..], every key descending
SearchPrecedes(r1, r2, keys, word, i) ==
    IF i > Len(keys) THEN TRUE
    ELSE LET a == SearchSortKey(r1, keys[i], word)
             b == SearchSortKey(r2, keys[i], word)
         IN  IF a = b THEN SearchPrecedes(r1, r2, keys, word, i + 1) ELSE a > b

SearchOrderings(rows, keys, word) ==
    {ord \in [1..Cardinality(rows) -> rows] :
        /\ \A i, j \in DOMAIN ord : i # j => ord[i] # ord[j]
        /\ \A i, j \in DOMAIN ord : i < j => SearchPrecedes(ord[i], ord[j], keys, word, 1)}

\* The word the $1 of the ranking expression is bound to
RankWord(q) == IF q.order.ph = {} \/ Len(q.params) = 0 THEN Null ELSE q.params[1]

NoSearch == [query |-> <<>>, data |-> Pending, count |-> Pending,
             status |-> "none", returned |-> <<>>, total |-> 0]

\* search(searchFilters, pagination) up to Promise.all([...])
SearchCall ==
    /\ searchPc = "idle"
    /\ searchOut' = [NoSearch EXCEPT !.query = [main |-> SearchMainQuery(searchArgs),
                                                count |-> SearchCountQuery(searchArgs)]]
    /\ searchPc' = "dispatched"
    /\ UNCHANGED <<products, searchArgs>>
    /\ UNCHANGED <<whereVars, findVars, bulkVars, submitVars, tierVars, rewardVars>>
    /\ UNCHANGED <<simVars, crudVars, autoVars>>
    /\ UNCHANGED lateVars

\* db.query<Product>(mainQuery, [...params, limit, offset])
SearchReadData ==
    /\ searchPc = "dispatched" /\ searchOut.data.st = "pending"
    /\ LET q == searchOut.query.main
       IN  IF SearchStatementOk(q)
           THEN \E ord \in SearchOrderings(SearchMatching(products, q), q.order.keys, RankWord(q)) :
                   searchOut' = [searchOut EXCEPT !.data = [st |-> "ok", rows |-> Slice(ord, q),
                                                            full |-> ord, total |-> 0]]
           ELSE searchOut' = [searchOut EXCEPT !.data = [Pending EXCEPT !.st = "error"]]
    /\ UNCHANGED <<products, searchArgs, searchPc>>
    /\ UNCHANGED <<whereVars, findVars, bulkVars, submitVars, tierVars, rewardVars>>
    /\ UNCHANGED <<simVars, crudVars, autoVars>>
    /\ UNCHANGED lateVars

\* db.query<{ total: string }>(countQuery, params)
SearchReadCount ==
    /\ searchPc = "dispatched" /\ searchOut.count.st = "pending"
    /\ LET q == searchOut.query.count
       IN  IF SearchStatementOk(q)
           THEN searchOut' = [searchOut EXCEPT !.count = [Pending EXCEPT !.st = "ok",
                                 !.total = Cardinality(SearchMatching(products, q))]]
           ELSE searchOut' = [searchOut EXCEPT !.count = [Pending EXCEPT !.st = "error"]]
    /\ UNCHANGED <<products, searchArgs, searchPc>>
    /\ UNCHANGED <<whereVars, findVars, bulkVars, submitVars, tierVars, rewardVars>>
    /\ UNCHANGED <<simVars, crudVars, autoVars>>
    /\ UNCHANGED lateVars

\* Promise.all settles: return { data, total } when both queries were
\* answered, catch (error) { throw new DatabaseError(...) } as soon as one failed
SearchSettle ==
    /\ searchPc = "dispatched"
    /\ \/ searchOut.data.st = "error" \/ searchOut.count.st = "error"
       \/ searchOut.data.st = "ok" /\ searchOut.count.st = "ok"
    /\ IF searchOut.data.st = "ok" /\ searchOut.count.st = "ok"
       THEN /\ searchPc' = "done"
            /\ searchOut' = [searchOut EXCEPT !.status = "ok",
                                !.returned = searchOut.data.rows,
                                !.total = searchOut.count.total]
       ELSE /\ searchPc' = "failed"
            /\ searchOut' = [searchOut EXCEPT !.status = "DatabaseError"]
    /\ UNCHANGED <<products, searchArgs>>
    /\ UNCHANGED <<whereVars, findVars, bulkVars, submitVars, tierVars, rewardVars>>
    /\ UNCHANGED <<simVars, crudVars, autoVars>>
    /\ UNCHANGED lateVars

\* The calls: no facet, one facet, the free text with one facet, and two
\* pairs of facets; no pagination, or a page of MaxLimit rows
SearchFacetSets ==
    {{}} \cup {{f} : f \in Facets} \cup {{"query", f} : f \in Facets}
         \cup {{"category", "isNpd"}, {"brand", "priceRange"}}
SearchCalls ==
    [filters : UNION {SearchFiltersWith(present) : present \in SearchFacetSets},
     pagination : {NoPagination} \cup {PageLimit(p, MaxLimit) : p \in 1..MaxPage}]

SearchInit ==
    /\ products \in SUBSET ProductRows
    /\ searchArgs \in SearchCalls
    /\ searchPc = "idle" /\ searchOut = NoSearch

SearchNext == SearchCall \/ SearchReadData \/ SearchReadCount \/ SearchSettle
InitSearch == SearchInit /\ EarlyIdle /\ SimIdle /\ CrudIdle /\ AutoIdle /\ LateIdle
SpecSearch == InitSearch /\ [][SearchNext]_vars

(***************************************************************************)
(* Properties of search                                                    *)
(***************************************************************************)
SearchFinished == searchPc \in {"done", "failed"}

\* A list facet is supplied when it is a non-empty list, a range when it is
\* given, a flag when it is a boolean
ListSupplied(value) == value.t = "array" /\ Len(value.v) > 0
OneOf(field, value) == \E i \in DOMAIN value.v : field = value.v[i]
InRange(field, value) == value.v[1].v <= field.v /\ field.v <= value.v[2].v

\* AND across the supplied dimensions, OR within a list
FacetsMatch(row, f) ==
    /\ ListSupplied(f.category) => OneOf(row.category, f.category)
    /\ ListSupplied(f.brand) => OneOf(row.brand, f.brand)
    /\ ListSupplied(f.country) => OneOf(row.country, f.country)
    /\ ListSupplied(f.verificationStatus) => OneOf(row.verification_status, f.verificationStatus)
    /\ f.priceRange.t = "array" => InRange(row.mrp, f.priceRange)
    /\ f.dateRange.t = "array" => InRange(row.created_at, f.dateRange)
    /\ f.isRegional.t = "boolean" => row.is_regional_exclusive = f.isRegional
    /\ f.isNpd.t = "boolean" => row.is_npd = f.isNpd

\* The rows a search is to find: the facets, and the free text when given
Wanted(tbl, f) ==
    {r \in tbl : FacetsMatch(r, f) /\ (Truthy(f.query) => TextMatches(r, f.query))}

ClaimedKeys(f) ==
    IF Truthy(f.query) THEN <<"ts_rank", "ai_confidence_score", "created_at">>
    ELSE <<"created_at">>

PageOf(ord, pagination) ==
    LET off == SearchOffset(pagination)
        last == IF off + SearchLimit(pagination) < Len(ord)
                THEN off + SearchLimit(pagination) ELSE Len(ord)
    IN  SubSeq(ord, off + 1, last)

\* C17: a finished search has returned the matching rows of its page ordered
\* by relevance, then ai_confidence_score, then created_at, all descending,
\* when a free text was given, and by created_at descending when none was.
C17_ReturnsMatchesInClaimedOrder ==
    SearchFinished =>
        \E ord \in SearchOrderings(Wanted(products, searchArgs.filters),
                                   ClaimedKeys(searchArgs.filters), searchArgs.filters.query) :
            searchOut.returned = PageOf(ord, searchArgs.pagination)

\* C18: a finished search without free text whose page holds the whole
\* table has returned a product iff the product matches every supplied
\* facet dimension (AND across dimensions, OR within a list).
C18_ReturnedIffFacetsMatch ==
    (/\ SearchFinished
     /\ ~Truthy(searchArgs.filters.query)
     /\ SearchOffset(searchArgs.pagination) = 0
     /\ SearchLimit(searchArgs.pagination) >= Cardinality(products))
        => \A p \in products :
              (\E i \in DOMAIN searchOut.returned : searchOut.returned[i] = p)
                  <=> FacetsMatch(p, searchArgs.filters)

\* C25: in both queries a search sends, the placeholders of the text are
\* exactly $1..$n for the n values bound.
C25_PlaceholdersAgreeWithValues ==
    searchPc # "idle" =>
        /\ SearchBindOk(searchOut.query.main)
        /\ SearchBindOk(searchOut.query.count)

(***************************************************************************)
(* Autocomplete: ProductRepository.getAutocompleteSuggestions (table       *)
(* products) and the route GET /autocomplete (table filis_data).  Both     *)
(* write a column name into the text of the statement.                     *)
(***************************************************************************)
MaxAutoRows == 3
AutoLimit == 10

ProductColumns == {"name", "brand", "description", "industry", "sector", "category",
                   "continents", "country", "verification_status"}
FilisColumns == {"product_name", "brand", "country", "industry", "sector",
                 "continentsdb", "company_name"}
AutoColumns(entry) == IF entry = "repository" THEN ProductColumns ELSE FilisColumns

\* Row i of either table: a text per column; brand is '' in the second row,
\* sector is NULL in the first, the third row is not verified
AutoRow(entry, i) ==
    [c \in AutoColumns(entry) |->
        CASE c = "verification_status" -> Str(IF i = 3 THEN <<"pending">> ELSE <<"verified">>)
          [] c = "brand" /\ i = 2 -> Str(<<>>)
          [] c = "sector" /\ i = 1 -> Null
          [] OTHER -> Str(IF i % 3 = 1 THEN <<"b">> ELSE IF i % 3 = 2 THEN <<"a", "b">> ELSE <<"a">>)]
AutoRows(entry) == {AutoRow(entry, i) : i \in 1..MaxAutoRows}

\* The field / type values a caller sends: the documented ones and others
AutoFields == {"name", "brand", "category", "country", "industry", "sector", "continent",
               "product_name", "company", "description", "email"}
AutoTexts == {<<>>, <<"a">>, <<"B">>}

\* getAutocompleteSuggestions: ${field} is written into the text as received
\* (the parameter's union type is erased at run time)
RepositoryColumn(field) == field

\* The route: let field = 'country'; if (type === ...) field = ...
RouteColumn(type) ==
    CASE type = "industry" -> "industry"
      [] type = "sector" -> "sector"
      [] type = "continent" -> "continentsdb"
      [] type \in {"name", "product_name"} -> "product_name"
      [] type = "brand" -> "brand"
      [] type = "company" -> "company_name"
      [] OTHER -> "country"

\* The characters of the modelled texts in collation order
CharOrder == <<"B", "a", "b">>

RECURSIVE LexLess(_, _)
\* a sorts before b
LexLess(a, b) ==
    IF Len(b) = 0 THEN FALSE
    ELSE IF Len(a) = 0 THEN TRUE
    ELSE IF Head(a) = Head(b) THEN LexLess(Tail(a), Tail(b))
    ELSE \E i, j \in DOMAIN CharOrder :
            i < j /\ CharOrder[i] = Head(a) /\ CharOrder[j] = Head(b)

\* ORDER BY column over the DISTINCT values
SortedValues(values) ==
    CHOOSE ord \in [1..Cardinality(values) -> values] :
        \A i, j \in DOMAIN ord : i < j => LexLess(ord[i].v, ord[j].v)

\* WHERE column ILIKE '%q%', and the second condition of each entry point:
\* verification_status = 'verified' / column IS NOT NULL AND column != ''
AutoSelected(entry, rows, column, q) ==
    {r[column] : r \in {x \in rows :
        /\ x[column].t = "string"
        /\ Like(x[column].v, <<"%">> \o q \o <<"%">>)
        /\ IF entry = "repository" THEN x.verification_status = Str(<<"verified">>)
           ELSE Len(x[column].v) > 0}}

\* LIMIT 10, then rows.map(...).filter(Boolean): the empty string is dropped
AutoResult(entry, rows, column, q) ==
    LET ord == SortedValues(AutoSelected(entry, rows, column, q))
        cut == SubSeq(ord, 1, IF Len(ord) < AutoLimit THEN Len(ord) ELSE AutoLimit)
    IN  SelectSeq(cut, Truthy)

NoAuto == [st |-> "none", column |-> "none", values |-> <<>>]

\* getAutocompleteSuggestions(query, field) up to db.query
AutoRepositoryCall ==
    /\ autoIn.entry = "repository" /\ autoOut.st = "none"
    /\ autoOut' = [NoAuto EXCEPT !.st = "sent", !.column = RepositoryColumn(autoIn.field)]
    /\ UNCHANGED autoIn
    /\ UNCHANGED <<whereVars, findVars, bulkVars, submitVars, tierVars, rewardVars>>
    /\ UNCHANGED <<simVars, crudVars, searchVars>>
    /\ UNCHANGED lateVars

\* GET /autocomplete?q=&type= up to db.query; if (!q) the answer is []
AutoRouteCall ==
    /\ autoIn.entry = "route" /\ autoOut.st = "none"
    /\ IF Len(autoIn.q) = 0
       THEN autoOut' = [NoAuto EXCEPT !.st = "ok"]
       ELSE autoOut' = [NoAuto EXCEPT !.st = "sent", !.column = RouteColumn(autoIn.field)]
    /\ UNCHANGED autoIn
    /\ UNCHANGED <<whereVars, findVars, bulkVars, submitVars, tierVars, rewardVars>>
    /\ UNCHANGED <<simVars, crudVars, searchVars>>
    /\ UNCHANGED lateVars

\* The store answers: the values, or an error when the table has no such
\* column (DatabaseError from the repository, status 500 from the route)
AutoAnswer ==
    /\ autoOut.st = "sent"
    /\ IF autoOut.column \in AutoColumns(autoIn.entry)
       THEN autoOut' = [autoOut EXCEPT !.st = "ok",
                           !.values = AutoResult(autoIn.entry, autoIn.rows, autoOut.column, autoIn.q)]
       ELSE autoOut' = [autoOut EXCEPT !.st = "error"]
    /\ UNCHANGED autoIn
    /\ UNCHANGED <<whereVars, findVars, bulkVars, submitVars, tierVars, rewardVars>>
    /\ UNCHANGED <<simVars, crudVars, searchVars>>
    /\ UNCHANGED lateVars

AutoInputs ==
    UNION {[entry : {e}, field : AutoFields, q : AutoTexts, rows : SUBSET AutoRows(e)]
           : e \in {"repository", "route"}}

AutoInit == autoIn \in AutoInputs /\ autoOut = NoAuto
AutoNext == AutoRepositoryCall \/ AutoRouteCall \/ AutoAnswer
InitAuto == AutoInit /\ EarlyIdle /\ SimIdle /\ CrudIdle /\ SearchIdle /\ LateIdle
SpecAuto == InitAuto /\ [][AutoNext]_vars

Whitelist == {"name", "brand", "category", "country", "industry", "sector", "continent"}

\* C19: whatever field or type the caller sends, the column written into the
\* autocomplete statement is one of name, brand, category, country, industry,
\* sector, continent, and the answer is at most 10 distinct values in
\* lexical order.
C19_ColumnIsWhitelisted ==
    /\ autoOut.column # "none" => autoOut.column \in Whitelist
    /\ autoOut.st = "ok" =>
          /\ Len(autoOut.values) <= AutoLimit
          /\ \A i, j \in DOMAIN autoOut.values :
                i < j => LexLess(autoOut.values[i].v, autoOut.values[j].v)

(***************************************************************************)
(* The connection pool under concurrent callers.  pool.query checks a      *)
(* client out, runs one statement and releases it; find, search and        *)
(* getFilterFacets dispatch their queries together (Promise.all);          *)
(* bulkInsert checks one client out (getClient) and sends every statement  *)
(* of its transaction through that client.  A checkout that is not granted *)
(* within connectionTimeoutMillis ends with an error.                      *)
(***************************************************************************)
MaxPool == 2
MaxStatements == 2

PoolCallers == {1, 2}
PoolOps == {"find", "search", "getFilterFacets", "bulkInsert"}

\* The checkouts an operation asks for when it is called
QueriesOf(op) ==
    CASE op = "getFilterFacets" -> 3
      [] op = "bulkInsert" -> 1
      [] OTHER -> 2

\* A transaction whose statements go through db.query, that is the pool.
StatementChannelPool(op) == "pool"

\* bulkInsert: db.queryWithClient(client, ...), the client of the transaction
StatementChannel(op) == IF op = "bulkInsert" THEN "client" ELSE "pool"

Task(caller, op, st, left, child) ==
    [caller |-> caller, op |-> op, st |-> st, left |-> left, child |-> child]

Settled == {"done", "timeout"}

RECURSIVE TasksOf(_, _)
\* The checkouts of the callers c.. in the order they are asked for
TasksOf(ops, c) ==
    IF c > Len(ops) THEN <<>>
    ELSE [k \in 1..QueriesOf(ops[c]) |-> Task(c, ops[c], "new", 0, 0)] \o TasksOf(ops, c + 1)

\* The call: Promise.all([db.query(...), ...]) or db.transaction(...) asks
\* for every checkout of the operation at once
PoolDispatch ==
    /\ \E c \in PoolCallers :
         /\ \E k \in DOMAIN tasks : tasks[k].caller = c /\ tasks[k].st = "new"
         /\ \E n \in 1..MaxStatements :
              tasks' = [k \in DOMAIN tasks |->
                          IF tasks[k].caller = c
                          THEN [tasks[k] EXCEPT !.st = "want",
                                  !.left = IF tasks[k].op = "bulkInsert" THEN n ELSE 0]
                          ELSE tasks[k]]
    /\ UNCHANGED poolFree
    /\ UNCHANGED <<whereVars, findVars, bulkVars, submitVars, tierVars, rewardVars>>
    /\ UNCHANGED <<simVars, crudVars, searchVars, autoVars, acctVars>>

\* pool.connect() resolves with an idle client
PoolGrant ==
    /\ poolFree > 0
    /\ \E k \in DOMAIN tasks :
         /\ tasks[k].st = "want"
         /\ tasks' = [tasks EXCEPT ![k].st = "run"]
    /\ poolFree' = poolFree - 1
    /\ UNCHANGED <<whereVars, findVars, bulkVars, submitVars, tierVars, rewardVars>>
    /\ UNCHANGED <<simVars, crudVars, searchVars, autoVars, acctVars>>

\* connectionTimeoutMillis (config.connectionTimeoutMillis || 5000) elapses
PoolTimeout ==
    /\ \E k \in DOMAIN tasks :
         /\ tasks[k].st = "want"
         /\ tasks' = [tasks EXCEPT ![k].st = "timeout"]
    /\ UNCHANGED poolFree
    /\ UNCHANGED <<whereVars, findVars, bulkVars, submitVars, tierVars, rewardVars>>
    /\ UNCHANGED <<simVars, crudVars, searchVars, autoVars, acctVars>>

\* pool.query: the statement is answered (or fails) and the client goes back
QueryFinish ==
    /\ \E k \in DOMAIN tasks :
         /\ tasks[k].st = "run" /\ StatementChannel(tasks[k].op) = "pool"
         /\ tasks' = [tasks EXCEPT ![k].st = "done"]
    /\ poolFree' = poolFree + 1
    /\ UNCHANGED <<whereVars, findVars, bulkVars, submitVars, tierVars, rewardVars>>
    /\ UNCHANGED <<simVars, crudVars, searchVars, autoVars, acctVars>>

\* The next statement of the transaction.  Through the client it needs no
\* checkout; through the pool it asks for one and goes on when that one
\* has settled (a timeout aborts the transaction).
TxStatement ==
    /\ \E k \in DOMAIN tasks :
         LET t == tasks[k]
         IN  /\ t.st = "run" /\ t.op = "bulkInsert" /\ t.left > 0
             /\ IF t.child = 0 THEN TRUE ELSE tasks[t.child].st \in Settled
             /\ tasks' =
                  IF StatementChannel(t.op) = "client"
                  THEN [tasks EXCEPT ![k].left = t.left - 1]
                  ELSE IF t.child = 0
                  THEN Append([tasks EXCEPT ![k].child = Len(tasks) + 1],
                              Task(t.caller, "statement", "want", 0, 0))
                  ELSE [tasks EXCEPT ![k].child = 0,
                          ![k].left = IF tasks[t.child].st = "done" THEN t.left - 1 ELSE 0]
    /\ UNCHANGED poolFree
    /\ UNCHANGED <<whereVars, findVars, bulkVars, submitVars, tierVars, rewardVars>>
    /\ UNCHANGED <<simVars, crudVars, searchVars, autoVars, acctVars>>

\* COMMIT or ROLLBACK, then finally { client.release() }
TxEnd ==
    /\ \E k \in DOMAIN tasks :
         /\ tasks[k].st = "run" /\ tasks[k].op = "bulkInsert"
         /\ tasks[k].left = 0 /\ tasks[k].child = 0
         /\ tasks' = [tasks EXCEPT ![k].st = "done"]
    /\ poolFree' = poolFree + 1
    /\ UNCHANGED <<whereVars, findVars, bulkVars, submitVars, tierVars, rewardVars>>
    /\ UNCHANGED <<simVars, crudVars, searchVars, autoVars, acctVars>>

PoolInit ==
    /\ poolFree \in 1..MaxPool
    /\ \E ops \in [PoolCallers -> PoolOps] : tasks = TasksOf(ops, 1)

PoolNext == PoolDispatch \/ PoolGrant \/ PoolTimeout \/ QueryFinish \/ TxStatement \/ TxEnd
InitPool == PoolInit /\ EarlyIdle /\ LaterIdle /\ AcctIdle
\* Timers fire and answered statements return: no step stays enabled forever
SpecPool == InitPool /\ [][PoolNext]_vars /\ WF_vars(PoolNext)

(***************************************************************************)
(* Properties of the pool                                                  *)
(***************************************************************************)
TaskSlots == 1..(3 * Cardinality(PoolCallers) + Cardinality(PoolCallers))

Waiting(k) == IF k \in DOMAIN tasks THEN tasks[k].st = "want" ELSE FALSE
Holding(k) == IF k \in DOMAIN tasks THEN tasks[k].st = "run" ELSE FALSE

\* C22 as stated: no caller has a checkout waiting while it holds a client.
C22_NoCallerWaitsWhileHolding ==
    \A c \in PoolCallers :
        ~(\E k, j \in DOMAIN tasks :
             /\ tasks[k].caller = c /\ tasks[j].caller = c
             /\ tasks[k].st = "run" /\ tasks[j].st = "want")

\* The holder of a client needs no further checkout to give the client back
ReleaseNeedsNoCheckout ==
    \A k \in DOMAIN tasks :
        tasks[k].st = "run" =>
            (tasks[k].child = 0 \/ tasks[tasks[k].child].st # "want")

\* C22: no client is held by a query or transaction that needs a further
\* checkout before it gives the client back, and every checkout that waits
\* is eventually granted or ends with the timeout error.
C22_EveryCheckoutSettles ==
    /\ []ReleaseNeedsNoCheckout
    /\ \A k \in TaskSlots : Waiting(k) ~> ~Waiting(k)

C22_Witness ==
    /\ poolFree = 0
    /\ \E k, j, i \in DOMAIN tasks :
         /\ tasks[k].st = "run" /\ tasks[k].op = "bulkInsert" /\ tasks[k].left > 0
         /\ tasks[j].st = "want" /\ tasks[j].caller # tasks[k].caller
         /\ tasks[i].st = "timeout"

(***************************************************************************)
(* UserRepository: concurrent createUser calls, and updateUserTier,        *)
(* getUserStats and updateEarnings, against the users table (PRIMARY KEY   *)
(* id, UNIQUE email, UNIQUE phone).  Every statement is autocommitted.     *)
(***************************************************************************)
AcctCallers == {1, 2}
Emails == {"e1", "e2"}
Phones == {"p1", "p2"}
LookupIds == {1, 2}
LookupOps == {"updateUserTier", "getUserStats", "updateEarnings"}

UserRow(id, email, phone, total, quality) ==
    [id |-> id, email |-> email, phone |-> phone, total |-> total, quality |-> quality,
     tier |-> "bronze", earnings |-> 0]

\* The row of an earlier registration; LookupIds holds its id and a free one
SeedUser == UserRow(1, "e1", "p1", 10, 700)

\* INSERT INTO users (email, phone, password_hash, full_name): the other
\* columns take their defaults; the id is fresh
CreatedUser(c, email, phone) == UserRow(Cardinality(LookupIds) + c, email, phone, 0, 0)

\* SELECT * FROM users WHERE email = $1 OR phone = $2 LIMIT 1
findByEmailOrPhone(tbl, email, phone) == {r \in tbl : r.email = email \/ r.phone = phone}

\* A catch that wraps the unique violation like every other error.
CreateUserCatchWraps(code) == "DatabaseError"

\* catch (error) { if (error.code === '23505') throw new DuplicateError(...);
\*                 throw new DatabaseError(...) }
CreateUserCatch(code) == IF code = "23505" THEN "DuplicateError" ELSE "DatabaseError"

\* try { ...; if (result.rows.length === 0) throw new NotFoundError(...); ... }
\* catch (error) { throw new DatabaseError(...) }: the catch encloses the throw
LookupCatch(error) == "DatabaseError"

\* The statement of each operation, applied to the row it finds
LookupEffect(op, row) ==
    CASE op = "updateUserTier" -> [row EXCEPT !.tier = NewTierTS(row)]
      [] op = "updateEarnings" -> [row EXCEPT !.earnings = row.earnings + 1]
      [] OTHER -> row

AcctCall(op, email, phone, id) ==
    [op |-> op, email |-> email, phone |-> phone, id |-> id, pc |-> "start",
     result |-> "none", code |-> "none", before |-> {}]

\* createUser: const existingUser = await this.findByEmailOrPhone(...)
PreCheck ==
    /\ \E c \in AcctCallers :
         LET a == acctCalls[c]
         IN  /\ a.op = "createUser" /\ a.pc = "start"
             /\ \/ acctCalls' = [acctCalls EXCEPT ![c] =
                       IF findByEmailOrPhone(acctUsers, a.email, a.phone) # {}
                       THEN [a EXCEPT !.pc = "done", !.result = "DuplicateError",
                                      !.before = acctUsers]
                       ELSE [a EXCEPT !.pc = "insert"]]
                \/ acctCalls' = [acctCalls EXCEPT ![c] =
                       [a EXCEPT !.pc = "done", !.result = "DatabaseError",
                                 !.code = "08006", !.before = acctUsers]]
    /\ UNCHANGED acctUsers
    /\ UNCHANGED <<whereVars, findVars, bulkVars, submitVars, tierVars, rewardVars>>
    /\ UNCHANGED <<simVars, crudVars, searchVars, autoVars, poolVars>>

\* createUser: bcrypt.hash, then db.query(INSERT ... RETURNING *) and its catch
InsertUser ==
    /\ \E c \in AcctCallers :
         LET a   == acctCalls[c]
             row == CreatedUser(c, a.email, a.phone)
         IN  /\ a.op = "createUser" /\ a.pc = "insert"
             /\ \/ IF findByEmailOrPhone(acctUsers, a.email, a.phone) # {}
                   THEN /\ acctCalls' = [acctCalls EXCEPT ![c] =
                              [a EXCEPT !.pc = "done", !.result = CreateUserCatch("23505"),
                                        !.code = "23505", !.before = acctUsers]]
                        /\ UNCHANGED acctUsers
                   ELSE /\ acctCalls' = [acctCalls EXCEPT ![c] =
                              [a EXCEPT !.pc = "done", !.result = "ok", !.before = acctUsers]]
                        /\ acctUsers' = acctUsers \cup {row}
                \/ /\ acctCalls' = [acctCalls EXCEPT ![c] =
                         [a EXCEPT !.pc = "done", !.result = CreateUserCatch("08006"),
                                   !.code = "08006", !.before = acctUsers]]
                   /\ UNCHANGED acctUsers
    /\ UNCHANGED <<whereVars, findVars, bulkVars, submitVars, tierVars, rewardVars>>
    /\ UNCHANGED <<simVars, crudVars, searchVars, autoVars, poolVars>>

\* updateUserTier / getUserStats / updateEarnings: one statement WHERE id = $1
UserLookup ==
    /\ \E c \in AcctCallers :
         LET a   == acctCalls[c]
             hit == {r \in acctUsers : r.id = a.id}
         IN  /\ a.op \in LookupOps /\ a.pc = "start"
             /\ \/ /\ acctUsers' = (acctUsers \ hit) \cup {LookupEffect(a.op, r) : r \in hit}
                   /\ acctCalls' = [acctCalls EXCEPT ![c] =
                         [a EXCEPT !.pc = "done", !.before = acctUsers,
                                   !.result = IF hit = {} THEN LookupCatch("NotFoundError")
                                              ELSE "ok"]]
                \/ /\ acctCalls' = [acctCalls EXCEPT ![c] =
                         [a EXCEPT !.pc = "done", !.result = LookupCatch("08006"),
                                   !.code = "08006", !.before = acctUsers]]
                   /\ UNCHANGED acctUsers
    /\ UNCHANGED <<whereVars, findVars, bulkVars, submitVars, tierVars, rewardVars>>
    /\ UNCHANGED <<simVars, crudVars, searchVars, autoVars, poolVars>>

AcctRequests ==
    {AcctCall("createUser", e, p, 0) : e \in Emails, p \in Phones}
        \cup {AcctCall(op, "none", "none", id) : op \in LookupOps, id \in LookupIds}

AcctInit ==
    /\ acctUsers \in SUBSET {SeedUser}
    /\ acctCalls \in [AcctCallers -> AcctRequests]

AcctNext == PreCheck \/ InsertUser \/ UserLookup
InitAcct == AcctInit /\ EarlyIdle /\ LaterIdle /\ PoolIdle
SpecAcct == InitAcct /\ [][AcctNext]_vars

(***************************************************************************)
(* Properties of the UserRepository calls                                  *)
(***************************************************************************)
\* C27: updateUserTier, getUserStats and updateEarnings called with an id
\* that matches no row end with NotFoundError and change no row.
C27_UnknownUserIsNotFound ==
    \A c \in AcctCallers :
        LET a == acctCalls[c]
        IN  (/\ a.op \in LookupOps /\ a.pc = "done" /\ a.code = "none"
             /\ ~\E r \in a.before : r.id = a.id)
                => a.result = "NotFoundError"

Conflicts(a, b) == a.email = b.email \/ a.phone = b.phone

\* C30: whatever the interleaving of createUser calls, no two user rows
\* share an email or a phone; a call that ends with DuplicateError met a row
\* with its email or phone; of the calls that share an email or a phone at
\* most one succeeds; and DatabaseError is never the answer to a conflict,
\* be it found by the pre-check or by the constraint at insert time.
C30_ConflictIsDuplicateError ==
    /\ \A r1, r2 \in acctUsers : Conflicts(r1, r2) => r1 = r2
    /\ \A c \in AcctCallers :
          LET a == acctCalls[c]
          IN  (a.op = "createUser" /\ a.pc = "done") =>
                 /\ a.result = "DuplicateError" =>
                       findByEmailOrPhone(a.before, a.email, a.phone) # {}
                 /\ a.result = "DatabaseError" => a.code = "08006"
                 /\ a.code = "23505" => a.result = "DuplicateError"
                 /\ a.result = "ok" =>
                       CreatedUser(c, a.email, a.phone) \in acctUsers
    /\ \A c, d \in AcctCallers :
          (/\ c # d /\ acctCalls[c].op = "createUser" /\ acctCalls[d].op = "createUser"
           /\ Conflicts(acctCalls[c], acctCalls[d]))
              => ~(acctCalls[c].result = "ok" /\ acctCalls[d].result = "ok")

\* Two calls passed the pre-check together; the constraint stopped the second
C30_Witness ==
    \E c, d \in AcctCallers :
        /\ c # d
        /\ acctCalls[c].result = "ok" /\ acctCalls[d].code = "23505"
        /\ acctCalls[d].result = "DuplicateError"
        /\ findByEmailOrPhone(acctUsers, acctCalls[d].email, acctCalls[d].phone)
              = {CreatedUser(c, acctCalls[c].email, acctCalls[c].phone)}
====
